---- MODULE Spec2Model ----
(***************************************************************************)
(* A model of the operator replay debugger (kubestep): the log store       *)
(* (pkg/storage), the recording client (pkg/recorder) and the replay       *)
(* engine (pkg/replay).                                                     *)
(*                                                                         *)
(* Conventions.                                                             *)
(*  - A Go string is a TLA+ string.  Strings too long to write out are     *)
(*    written as tokens listed in LongLen, and StrLen gives Go's len().    *)
(*  - A Go error is the prefix of its message; "" is the nil error.        *)
(*  - A time.Time is an integer number of milliseconds; Unix(t) is         *)
(*    t.Unix() and FromUnix(s) is time.Unix(s, 0).  An unset time (IsZero) *)
(*    and a NULL column are the empty sequence << >>, a set one is <<v>>.  *)
(*  - A table is the sequence of its rows in rowid order.                  *)
(***************************************************************************)
EXTENDS Integers, Sequences, FiniteSets, TLC

VARIABLES
    \* ---- storage.Database -------------------------------------------------
    dbOperations,    \* table operations
    dbSpans,         \* table reconcile_spans
    maxOperations,   \* Database.maxOperations
    last,            \* the last store call: its name, arguments and results
    \* ---- recorder.RecordingClient (one per recorder id) ---------------------
    recorders,       \* recorder id -> the RecordingClient's fields
    rlast,           \* the last recorder call
    \* ---- replay.ReplayEngine ------------------------------------------------
    operations,      \* ReplayEngine.operations
    currentIndex,    \* ReplayEngine.currentIndex
    maxIndex,        \* ReplayEngine.maxIndex
    stateCache,      \* ReplayEngine.stateCache: key -> decoded object
    maxCacheSize,    \* ReplayEngine.maxCacheSize
    elast,           \* the last engine call
    \* ---- analysis and verification: functions of their arguments ------------
    aIn,             \* the call: its name and arguments
    aOut,            \* what the call returned (NotCalled before the call)
    enum             \* generateChains: its position, its stack and its chains

storeVars == <<dbOperations, dbSpans, maxOperations, last>>
recorderVars == <<recorders, rlast>>
engineVars == <<operations, currentIndex, maxIndex, stateCache, maxCacheSize, elast>>
analysisVars == <<aIn, aOut, enum>>
vars == <<dbOperations, dbSpans, maxOperations, last, recorders, rlast,
          operations, currentIndex, maxIndex, stateCache, maxCacheSize, elast,
          aIn, aOut, enum>>

(***************************************************************************)
(* Bounds of the model.                                                     *)
(***************************************************************************)
MaxRows == 3
MaxSpanRows == 2
MaxRecorded == 3
\* the length of the longest replayed log
MaxReplayLen == 1001

(***************************************************************************)
(* Program constants.                                                       *)
(***************************************************************************)
maxResourceKindLength == 100
maxNamespaceLength == 253
maxNameLength == 253
maxActorIDLength == 256
maxUIDLength == 128
maxResourceVersionLen == 128
maxVerbLength == 20
maxSpanIDLength == 128
maxDataLength == 1048576
maxErrorLength == 10000
maxTriggerReasonLength == 512
maxOperationTypeLength == 20
defaultMaxOperations == 1000000
maxQueryResults == 10000
maxStepSize == 1000
maxOperationsInMemory == 100000
defaultMaxCacheSize == 1000
defaultMaxSequence == 1000000

(***************************************************************************)
(* Strings.                                                                 *)
(***************************************************************************)
LongKind == "<kind of 101 bytes>"
LongError == "<error of 10001 bytes>"
LongOpType == "<operation type of 21 bytes>"

LongLen == (LongKind :> 101) @@ (LongError :> 10001) @@ (LongOpType :> 21)

\* len(s)
StrLen(s) == IF s \in DOMAIN LongLen THEN LongLen[s] ELSE Len(s)

\* t.Unix(): whole seconds since the epoch
Unix(t) == t \div 1000

\* time.Unix(s, 0)
FromUnix(s) == s * 1000

Min(a, b) == IF a < b THEN a ELSE b

\* assert.AssertInRange
AssertInRange(value, lo, hi) == lo <= value /\ value <= hi

\* assert.AssertStringNotEmpty
AssertStringNotEmpty(s) == StrLen(s) # 0

(***************************************************************************)
(* storage: the Operation record and its validation.                        *)
(***************************************************************************)

\* ValidateOperation: the error of the first check that fails, "" when none does
ValidateOperation(op) ==
    IF StrLen(op.SessionID) = 0 THEN "session_id is empty"
    ELSE IF ~AssertInRange(StrLen(op.ResourceKind), 1, maxResourceKindLength)
        THEN "range error: resource_kind length"
    ELSE IF StrLen(op.Namespace) > maxNamespaceLength
        THEN "assertion failed: namespace exceeds max length"
    ELSE IF StrLen(op.Name) > maxNameLength
        THEN "assertion failed: name exceeds max length"
    ELSE IF StrLen(op.ResourceData) > maxDataLength
        THEN "assertion failed: resource_data exceeds max length"
    ELSE IF StrLen(op.Error) > maxErrorLength
        THEN "assertion failed: error exceeds max length"
    ELSE IF StrLen(op.ActorID) > maxActorIDLength
        THEN "assertion failed: actor_id exceeds max length"
    ELSE IF StrLen(op.UID) > maxUIDLength
        THEN "assertion failed: uid exceeds max length"
    ELSE IF StrLen(op.ResourceVersion) > maxResourceVersionLen
        THEN "assertion failed: resource_version exceeds max length"
    ELSE IF StrLen(op.Verb) > maxVerbLength
        THEN "assertion failed: verb exceeds max length"
    ELSE IF op.Generation < 0
        THEN "assertion failed: generation must be non-negative"
    ELSE ""

\* The row that the INSERT statement of prepareInsertStatement writes for op;
\* id is the AUTOINCREMENT rowid.
OperationRow(op, id) ==
    [id |-> id,
     session_id |-> op.SessionID,
     sequence_number |-> op.SequenceNumber,
     timestamp |-> Unix(op.Timestamp),
     operation_type |-> op.OperationType,
     resource_kind |-> op.ResourceKind,
     namespace |-> op.Namespace,
     name |-> op.Name,
     resource_data |-> op.ResourceData,
     error |-> op.Error,
     duration_ms |-> op.DurationMs,
     actor_id |-> op.ActorID,
     uid |-> op.UID,
     resource_version |-> op.ResourceVersion,
     generation |-> op.Generation,
     verb |-> op.Verb]

\* The CHECK and NOT NULL constraints of table operations (Schema).  The Go
\* side never passes NULL, so only the length checks can fail.
OperationsConstraints(row) ==
    /\ StrLen(row.operation_type) <= maxOperationTypeLength
    /\ StrLen(row.resource_kind) <= maxResourceKindLength
    /\ StrLen(row.namespace) <= maxNamespaceLength
    /\ StrLen(row.name) <= maxNameLength
    /\ StrLen(row.actor_id) <= maxActorIDLength
    /\ StrLen(row.uid) <= maxUIDLength
    /\ StrLen(row.resource_version) <= maxResourceVersionLen
    /\ StrLen(row.verb) <= maxVerbLength
    /\ StrLen(row.resource_data) <= maxDataLength
    /\ StrLen(row.error) <= maxErrorLength

\* rows.Scan with uid and resource_version scanned into each other's field
ScanOperationSwapped(row) ==
    [ID |-> row.id,
     SessionID |-> row.session_id,
     SequenceNumber |-> row.sequence_number,
     Timestamp |-> FromUnix(row.timestamp),
     OperationType |-> row.operation_type,
     ResourceKind |-> row.resource_kind,
     Namespace |-> row.namespace,
     Name |-> row.name,
     ResourceData |-> row.resource_data,
     Error |-> row.error,
     DurationMs |-> row.duration_ms,
     ActorID |-> row.actor_id,
     UID |-> row.resource_version,
     ResourceVersion |-> row.uid,
     Generation |-> row.generation,
     Verb |-> row.verb]

\* rows.Scan and the conversions that follow it in QueryOperations
ScanOperation(row) ==
    [ID |-> row.id,
     SessionID |-> row.session_id,
     SequenceNumber |-> row.sequence_number,
     Timestamp |-> FromUnix(row.timestamp),
     OperationType |-> row.operation_type,
     ResourceKind |-> row.resource_kind,
     Namespace |-> row.namespace,
     Name |-> row.name,
     ResourceData |-> row.resource_data,
     Error |-> row.error,
     DurationMs |-> row.duration_ms,
     ActorID |-> row.actor_id,
     UID |-> row.uid,
     ResourceVersion |-> row.resource_version,
     Generation |-> row.generation,
     Verb |-> row.verb]

(***************************************************************************)
(* SQL: ORDER BY and LIMIT.  Rows with equal keys come in rowid order, as   *)
(* SQLite's scan of the table or of idx_session_sequence yields them.       *)
(***************************************************************************)
RECURSIVE InsertSorted(_, _, _)
InsertSorted(row, sorted, col) ==
    IF sorted = <<>> THEN <<row>>
    ELSE IF row[col] < Head(sorted)[col] THEN <<row>> \o sorted
    ELSE <<Head(sorted)>> \o InsertSorted(row, Tail(sorted), col)

\* ORDER BY col (ascending)
RECURSIVE OrderBy(_, _)
OrderBy(rows, col) ==
    IF rows = <<>> THEN <<>>
    ELSE InsertSorted(rows[Len(rows)], OrderBy(SubSeq(rows, 1, Len(rows) - 1), col), col)

Limit(rows, n) == SubSeq(rows, 1, Min(Len(rows), n))


(***************************************************************************)
(* storage.Database: operations.                                            *)
(***************************************************************************)
NoCall == [fn |-> "", err |-> "", arg |-> <<>>, sid |-> "", lo |-> 0, hi |-> 0,
           rows |-> <<>>]

\* the statement without its WHERE session_id = ?
prepareQueryStatementAnySession(table, sessionID, limit) ==
    Limit(OrderBy(table, "sequence_number"), limit)

\* The rows the statement of prepareQueryStatement yields on a table
prepareQueryStatement(table, sessionID, limit) ==
    Limit(OrderBy(SelectSeq(table, LAMBDA r: r.session_id = sessionID), "sequence_number"),
          limit)

\* The rows the statement of prepareQueryStatement yields
QueryStmt(sessionID, limit) == prepareQueryStatement(dbOperations, sessionID, limit)

\* RangeStmt with the lower end of BETWEEN left out of the range
RangeStmtOpenBelow(sessionID, start, end, limit) ==
    Limit(OrderBy(SelectSeq(dbOperations,
                            LAMBDA r: /\ r.session_id = sessionID
                                      /\ start < r.sequence_number
                                      /\ r.sequence_number <= end),
                  "sequence_number"),
          limit)

\* The rows the statement of QueryOperationsByRange yields
RangeStmt(sessionID, start, end, limit) ==
    Limit(OrderBy(SelectSeq(dbOperations,
                            LAMBDA r: /\ r.session_id = sessionID
                                      /\ start <= r.sequence_number
                                      /\ r.sequence_number <= end),
                  "sequence_number"),
          limit)

\* The scan loop: at most maxQueryResults rows are taken
scanOperations(rows) ==
    [i \in 1..Min(Len(rows), maxQueryResults) |-> ScanOperation(rows[i])]

\* Database.QueryOperations: <<operations, error>>
\* Database.QueryOperations on a table: <<operations, error>>
QueryOperationsOn(table, sessionID) ==
    IF ~AssertStringNotEmpty(sessionID) THEN <<(<<>>), "empty string: session_id">>
    ELSE <<scanOperations(prepareQueryStatement(table, sessionID, maxQueryResults)), "">>

QueryOperationsResult(sessionID) == QueryOperationsOn(dbOperations, sessionID)

\* SQLiteStore.QueryOperationsByRange: <<operations, error>>
QueryOperationsByRangeResult(sessionID, start, end) ==
    IF ~AssertStringNotEmpty(sessionID) THEN <<(<<>>), "empty string: session ID">>
    ELSE IF ~AssertInRange(start, 0, end) THEN <<(<<>>), "range error: start sequence">>
    ELSE <<scanOperations(RangeStmt(sessionID, start, end, maxQueryResults)), "">>

\* Database.InsertOperation on table: the new table and the error returned.
\* backendOK is whether the statement's Exec succeeds apart from the table's
\* constraints (I/O, locking).  maxOperations is not consulted.
InsertOperationResult(table, op, backendOK) ==
    LET row == OperationRow(op, Len(table) + 1)
    IN  IF ValidateOperation(op) # ""
            THEN [table |-> table, err |-> "validation failed"]
        ELSE IF ~backendOK \/ ~OperationsConstraints(row)
            THEN [table |-> table, err |-> "failed to insert operation"]
        ELSE [table |-> Append(table, row), err |-> ""]

\* Database.InsertOperation
InsertOperation(op, backendOK) ==
    LET res == InsertOperationResult(dbOperations, op, backendOK)
    IN  /\ Len(dbOperations) < MaxRows
        /\ dbOperations' = res.table
        /\ last' = [NoCall EXCEPT !.fn = "InsertOperation", !.arg = <<op>>,
                                  !.err = res.err]
        /\ UNCHANGED <<dbSpans, maxOperations>>

\* Database.QueryOperations
QueryOperations(sessionID) ==
    LET res == QueryOperationsResult(sessionID)
    IN  /\ last' = [NoCall EXCEPT !.fn = "QueryOperations", !.sid = sessionID,
                                  !.rows = res[1], !.err = res[2]]
        /\ UNCHANGED <<dbOperations, dbSpans, maxOperations>>

\* SQLiteStore.QueryOperationsByRange
QueryOperationsByRange(sessionID, start, end) ==
    LET res == QueryOperationsByRangeResult(sessionID, start, end)
    IN  /\ last' = [NoCall EXCEPT !.fn = "QueryOperationsByRange", !.sid = sessionID,
                                  !.lo = start, !.hi = end,
                                  !.rows = res[1], !.err = res[2]]
        /\ UNCHANGED <<dbOperations, dbSpans, maxOperations>>


(***************************************************************************)
(* storage.Database: reconcile spans.                                       *)
(***************************************************************************)

\* ValidateReconcileSpan: the error of the first check that fails
ValidateReconcileSpan(span) ==
    IF StrLen(span.ID) = 0 THEN "span id is empty"
    ELSE IF ~AssertInRange(StrLen(span.ID), 1, maxSpanIDLength)
        THEN "range error: span id length"
    ELSE IF ~AssertStringNotEmpty(span.SessionID) THEN "empty string: session_id"
    ELSE IF ~AssertStringNotEmpty(span.ActorID) THEN "empty string: actor_id"
    ELSE IF ~AssertStringNotEmpty(span.Kind) THEN "empty string: kind"
    ELSE IF StrLen(span.ActorID) > maxActorIDLength
        THEN "assertion failed: actor_id exceeds max length"
    ELSE IF StrLen(span.Kind) > maxResourceKindLength
        THEN "assertion failed: kind exceeds max length"
    ELSE IF StrLen(span.Namespace) > maxNamespaceLength
        THEN "assertion failed: namespace exceeds max length"
    ELSE IF StrLen(span.Name) > maxNameLength
        THEN "assertion failed: name exceeds max length"
    ELSE IF StrLen(span.TriggerUID) > maxUIDLength
        THEN "assertion failed: trigger_uid exceeds max length"
    ELSE IF StrLen(span.TriggerResourceVersion) > maxResourceVersionLen
        THEN "assertion failed: trigger_resource_version exceeds max length"
    ELSE IF StrLen(span.TriggerReason) > maxTriggerReasonLength
        THEN "assertion failed: trigger_reason exceeds max length"
    ELSE IF StrLen(span.Error) > maxErrorLength
        THEN "assertion failed: error exceeds max length"
    ELSE IF span.DurationMs < 0
        THEN "assertion failed: duration_ms must be non-negative"
    ELSE ""

\* The row InsertReconcileSpan writes: end_ts is NULL when EndTime.IsZero(),
\* duration_ms is NULL unless DurationMs > 0.
SpanRow(span) ==
    [id |-> span.ID,
     session_id |-> span.SessionID,
     actor_id |-> span.ActorID,
     start_ts |-> Unix(span.StartTime),
     end_ts |-> IF span.EndTime = <<>> THEN <<>> ELSE <<Unix(span.EndTime[1])>>,
     duration_ms |-> IF span.DurationMs > 0 THEN <<span.DurationMs>> ELSE <<>>,
     kind |-> span.Kind,
     namespace |-> span.Namespace,
     name |-> span.Name,
     trigger_uid |-> span.TriggerUID,
     trigger_resource_version |-> span.TriggerResourceVersion,
     trigger_reason |-> span.TriggerReason,
     error |-> span.Error]

\* The CHECK constraints of table reconcile_spans (Schema)
SpansConstraints(row) ==
    /\ StrLen(row.actor_id) <= maxActorIDLength
    /\ StrLen(row.kind) <= maxResourceKindLength
    /\ StrLen(row.namespace) <= maxNamespaceLength
    /\ StrLen(row.name) <= maxNameLength
    /\ StrLen(row.trigger_uid) <= maxUIDLength
    /\ StrLen(row.trigger_resource_version) <= maxResourceVersionLen
    /\ StrLen(row.trigger_reason) <= maxTriggerReasonLength
    /\ StrLen(row.error) <= maxErrorLength

\* rows.Scan and the conversions that follow it in QueryReconcileSpans
ScanSpan(row) ==
    [ID |-> row.id,
     SessionID |-> row.session_id,
     ActorID |-> row.actor_id,
     StartTime |-> FromUnix(row.start_ts),
     EndTime |-> IF row.end_ts = <<>> THEN <<>> ELSE <<FromUnix(row.end_ts[1])>>,
     DurationMs |-> IF row.duration_ms = <<>> THEN 0 ELSE row.duration_ms[1],
     Kind |-> row.kind,
     Namespace |-> row.namespace,
     Name |-> row.name,
     TriggerUID |-> row.trigger_uid,
     TriggerResourceVersion |-> row.trigger_resource_version,
     TriggerReason |-> row.trigger_reason,
     Error |-> row.error]

\* The ids in table reconcile_spans (id is its PRIMARY KEY)
SpanIds(table) == {table[i].id : i \in 1..Len(table)}

\* Database.InsertReconcileSpan
InsertReconcileSpan(span, backendOK) ==
    LET verr == ValidateReconcileSpan(span)
        row == SpanRow(span)
    IN  /\ Len(dbSpans) < MaxSpanRows
        /\ IF verr # ""
              THEN /\ last' = [NoCall EXCEPT !.fn = "InsertReconcileSpan", !.arg = <<span>>,
                                             !.err = "span validation failed"]
                   /\ UNCHANGED dbSpans
           ELSE IF ~backendOK \/ row.id \in SpanIds(dbSpans) \/ ~SpansConstraints(row)
              THEN /\ last' = [NoCall EXCEPT !.fn = "InsertReconcileSpan", !.arg = <<span>>,
                                             !.err = "failed to insert reconcile span"]
                   /\ UNCHANGED dbSpans
           ELSE /\ dbSpans' = Append(dbSpans, row)
                /\ last' = [NoCall EXCEPT !.fn = "InsertReconcileSpan", !.arg = <<span>>]
        /\ UNCHANGED <<dbOperations, maxOperations>>

\* An UPDATE of reconcile_spans without the WHERE clause
EndSpanStmtEveryRow(table, spanID, endTs, durationMs, errMsg) ==
    [i \in 1..Len(table) |->
        [table[i] EXCEPT !.end_ts = <<endTs>>, !.duration_ms = <<durationMs>>,
                         !.error = errMsg]]

\* The UPDATE statement of prepareSpanStatements: every row WHERE id = spanID
\* gets the new end_ts, duration_ms and error
EndSpanStmt(table, spanID, endTs, durationMs, errMsg) ==
    [i \in 1..Len(table) |->
        IF table[i].id = spanID
        THEN [table[i] EXCEPT !.end_ts = <<endTs>>, !.duration_ms = <<durationMs>>,
                              !.error = errMsg]
        ELSE table[i]]

\* Database.EndReconcileSpan.  The result of Exec is only looked at for its
\* error: the number of rows the UPDATE changed is not read.
EndReconcileSpan(spanID, endTime, durationMs, errMsg, backendOK) ==
    LET args == [id |-> spanID, endTime |-> endTime, durationMs |-> durationMs,
                 errMsg |-> errMsg]
        updated == EndSpanStmt(dbSpans, spanID, Unix(endTime), durationMs, errMsg)
        constraintsOK == \A i \in 1..Len(updated) : SpansConstraints(updated[i])
    IN  /\ IF ~AssertStringNotEmpty(spanID)
              THEN /\ last' = [NoCall EXCEPT !.fn = "EndReconcileSpan", !.arg = <<args>>,
                                             !.err = "empty string: span id"]
                   /\ UNCHANGED dbSpans
           ELSE IF ~backendOK \/ ~constraintsOK
              THEN /\ last' = [NoCall EXCEPT !.fn = "EndReconcileSpan", !.arg = <<args>>,
                                             !.err = "failed to update reconcile span"]
                   /\ UNCHANGED dbSpans
           ELSE /\ dbSpans' = updated
                /\ last' = [NoCall EXCEPT !.fn = "EndReconcileSpan", !.arg = <<args>>]
        /\ UNCHANGED <<dbOperations, maxOperations>>

\* Database.QueryReconcileSpans: <<spans, error>>
QueryReconcileSpansResult(sessionID) ==
    IF ~AssertStringNotEmpty(sessionID) THEN <<(<<>>), "empty string: session_id">>
    ELSE LET rows == Limit(Limit(OrderBy(SelectSeq(dbSpans,
                                                   LAMBDA r: r.session_id = sessionID),
                                         "start_ts"),
                                 maxQueryResults),
                           maxQueryResults)
         IN  <<[i \in 1..Len(rows) |-> ScanSpan(rows[i])], "">>

\* Database.QueryReconcileSpans
QueryReconcileSpans(sessionID) ==
    LET res == QueryReconcileSpansResult(sessionID)
    IN  /\ last' = [NoCall EXCEPT !.fn = "QueryReconcileSpans", !.sid = sessionID,
                                  !.rows = res[1], !.err = res[2]]
        /\ UNCHANGED <<dbOperations, dbSpans, maxOperations>>


(***************************************************************************)
(* recorder.RecordingClient.                                                *)
(***************************************************************************)
defaultActorID == "unknown"

\* NewRecordingClient: the client built from cfg (cfg.SessionID is not empty
\* and of at most maxSessionIDLength bytes, or no client is built)
NewRecordingClient(cfg) ==
    [sessionID |-> cfg.SessionID,
     sequenceNum |-> 0,
     enabled |-> TRUE,
     maxSequence |-> IF cfg.MaxSequence <= 0 THEN defaultMaxSequence ELSE cfg.MaxSequence,
     actorID |-> IF StrLen(cfg.ActorID) = 0 THEN defaultActorID ELSE cfg.ActorID]

NoRecorderCall == [fn |-> "", r |-> 0, err |-> "", seq |-> 0, inserted |-> FALSE]

\* extractObjectMetadata: uid, resourceVersion, generation of obj (<<>> is nil)
extractObjectMetadata(obj) ==
    IF obj = <<>> THEN [uid |-> "", resourceVersion |-> "", generation |-> 0]
    ELSE [uid |-> obj[1].uid, resourceVersion |-> obj[1].resourceVersion,
          generation |-> obj[1].generation]

\* the bound check of recordOperation with > in the place of >=
SequenceExhaustedLate(rc) == rc.sequenceNum > rc.maxSequence

\* the bound check of recordOperation: no sequence number is left
SequenceExhausted(rc) == rc.sequenceNum >= rc.maxSequence

\* a counter that goes back to its old value when the insert fails
SequenceAfterInsertRolledBack(seq, insertErr) == IF insertErr = "" THEN seq ELSE seq - 1

\* the counter after the insert: recordOperation does not touch
\* r.sequenceNum again, whatever InsertOperation returns
SequenceAfterInsert(seq, insertErr) == seq

\* a recorder that records whether it is enabled or not
RecordingAlways(rc) == TRUE

\* the check of r.enabled at the head of recordOperation
Recording(rc) == rc.enabled

\* RecordingClient.recordOperation on the client rc and the table.  c holds
\* the call's arguments: opType, kind, namespace, name, obj (<<>> is nil),
\* err, duration in milliseconds; now is time.Now().  op is the operation
\* handed to InsertOperation (<<>> when none is).
recordOperationResult(rc, table, c, now, backendOK) ==
    LET seq == rc.sequenceNum + 1
        meta == extractObjectMetadata(c.obj)
        op == [SessionID |-> rc.sessionID,
               SequenceNumber |-> seq,
               Timestamp |-> now,
               OperationType |-> c.opType,
               ResourceKind |-> c.kind,
               Namespace |-> c.namespace,
               Name |-> c.name,
               ResourceData |-> IF c.obj = <<>> THEN "" ELSE c.obj[1].json,
               Error |-> c.err,
               DurationMs |-> c.duration,
               ActorID |-> rc.actorID,
               UID |-> meta.uid,
               ResourceVersion |-> meta.resourceVersion,
               Generation |-> meta.generation,
               Verb |-> c.opType]
        res == InsertOperationResult(table, op, backendOK)
    IN  IF ~Recording(rc)
            THEN [rc |-> rc, table |-> table, op |-> << >>, insertErr |-> "",
                  seq |-> 0, err |-> ""]
        ELSE IF SequenceExhausted(rc)
            THEN [rc |-> rc, table |-> table, op |-> << >>, insertErr |-> "",
                  seq |-> 0, err |-> "max sequence number reached"]
        ELSE [rc |-> [rc EXCEPT !.sequenceNum = SequenceAfterInsert(seq, res.err)],
              table |-> res.table, op |-> <<op>>, insertErr |-> res.err,
              seq |-> seq,
              err |-> IF res.err = "" THEN "" ELSE "failed to record operation"]

\* what a call of recordOperation by recorder r does to the recorders and
\* to the store (the counter and the table are kept within the bounds)
recordOperationEffect(r, res) ==
    /\ res.op # << >> => /\ recorders[r].sequenceNum < MaxRecorded
                         /\ Len(dbOperations) < MaxRows
    /\ recorders' = [recorders EXCEPT ![r] = res.rc]
    /\ dbOperations' = res.table
    /\ last' = IF res.op = << >> THEN last
               ELSE [NoCall EXCEPT !.fn = "InsertOperation", !.arg = res.op,
                                   !.err = res.insertErr]
    /\ UNCHANGED <<dbSpans, maxOperations>>

\* RecordingClient.recordOperation by recorder r
recordOperation(r, c, now, backendOK) ==
    LET res == recordOperationResult(recorders[r], dbOperations, c, now, backendOK)
    IN  /\ recordOperationEffect(r, res)
        /\ rlast' = [NoRecorderCall EXCEPT
                       !.fn = "recordOperation", !.r = r, !.seq = res.seq,
                       !.inserted = (res.op # << >> /\ res.insertErr = ""),
                       !.err = res.err]

\* RecordingClient.RecordGet by recorder r.  c holds the arguments and what
\* the Kubernetes client returns for them (c.obj, c.err); called tells
\* whether the Kubernetes client was called, obj and err are the return
\* values.
RecordGet(r, c, now, backendOK) ==
    LET res == recordOperationResult(recorders[r], dbOperations, c, now, backendOK)
    IN  /\ c.opType = "GET"
        /\ IF ~AssertStringNotEmpty(c.kind)
              THEN /\ rlast' = [fn |-> "RecordGet", r |-> r, call |-> c, called |-> FALSE,
                                obj |-> << >>, err |-> "resource kind"]
                   /\ UNCHANGED <<recorders, storeVars>>
           ELSE IF c.kind \notin {"Pod", "Service", "Deployment", "ConfigMap", "Secret"}
              THEN /\ rlast' = [fn |-> "RecordGet", r |-> r, call |-> c, called |-> FALSE,
                                obj |-> << >>, err |-> "unsupported resource kind"]
                   /\ UNCHANGED <<recorders, storeVars>>
           ELSE /\ recordOperationEffect(r, res)
                /\ rlast' = [fn |-> "RecordGet", r |-> r, call |-> c, called |-> TRUE,
                             obj |-> c.obj,
                             err |-> IF res.err # "" THEN "record failed" ELSE c.err]

\* RecordingClient.RecordDelete by recorder r (c.obj is nil: a delete
\* returns no object)
RecordDelete(r, c, now, backendOK) ==
    LET res == recordOperationResult(recorders[r], dbOperations, c, now, backendOK)
    IN  /\ c.opType = "DELETE"
        /\ c.obj = << >>
        /\ IF ~AssertStringNotEmpty(c.kind)
              THEN /\ rlast' = [fn |-> "RecordDelete", r |-> r, call |-> c, called |-> FALSE,
                                obj |-> << >>, err |-> "resource kind"]
                   /\ UNCHANGED <<recorders, storeVars>>
           ELSE IF ~AssertStringNotEmpty(c.namespace)
              THEN /\ rlast' = [fn |-> "RecordDelete", r |-> r, call |-> c, called |-> FALSE,
                                obj |-> << >>, err |-> "namespace"]
                   /\ UNCHANGED <<recorders, storeVars>>
           ELSE IF ~AssertStringNotEmpty(c.name)
              THEN /\ rlast' = [fn |-> "RecordDelete", r |-> r, call |-> c, called |-> FALSE,
                                obj |-> << >>, err |-> "resource name"]
                   /\ UNCHANGED <<recorders, storeVars>>
           ELSE IF c.kind \notin {"ConfigMap", "Secret"}
              THEN /\ rlast' = [fn |-> "RecordDelete", r |-> r, call |-> c, called |-> FALSE,
                                obj |-> << >>, err |-> "unsupported resource kind"]
                   /\ UNCHANGED <<recorders, storeVars>>
           ELSE /\ recordOperationEffect(r, res)
                /\ rlast' = [fn |-> "RecordDelete", r |-> r, call |-> c, called |-> TRUE,
                             obj |-> << >>,
                             err |-> IF res.err # "" THEN "record failed" ELSE c.err]

\* RecordingClient.Enable
Enable(r) ==
    /\ recorders' = [recorders EXCEPT ![r].enabled = TRUE]
    /\ rlast' = [NoRecorderCall EXCEPT !.fn = "Enable", !.r = r]
    /\ UNCHANGED storeVars

\* RecordingClient.Disable
Disable(r) ==
    /\ recorders' = [recorders EXCEPT ![r].enabled = FALSE]
    /\ rlast' = [NoRecorderCall EXCEPT !.fn = "Disable", !.r = r]
    /\ UNCHANGED storeVars


(***************************************************************************)
(* replay.ReplayEngine.  The slice operations is written as a record        *)
(* [cycle, len]: it has len elements, element i (from 0) being              *)
(* cycle[(i % Len(cycle)) + 1].                                             *)
(***************************************************************************)
\* len(operations)
OpsLen(ops) == ops.len

\* operations[i], i from 0
OpsAt(ops, i) == ops.cycle[(i % Len(ops.cycle)) + 1]

\* json.Unmarshal(data, &obj) with obj a nil runtime.Object: the target is an
\* interface with methods, so only the JSON literal null can be stored (as
\* nil); an object, array, string, number or boolean is an
\* UnmarshalTypeError and anything else a syntax error.
Unmarshal(data) ==
    IF data = "null" THEN [err |-> "", obj |-> "nil"]
    ELSE [err |-> "failed to unmarshal resource", obj |-> "nil"]

\* fmt.Sprintf("%s/%s/%s", op.ResourceKind, op.Namespace, op.Name)
CacheKey(op) == op.ResourceKind \o "/" \o op.Namespace \o "/" \o op.Name

\* ReplayEngine.updateCache on cache: the new cache and the error returned
updateCache(cache, size, op) ==
    IF StrLen(op.ResourceData) = 0
        THEN [cache |-> cache, err |-> ""]
    ELSE IF Cardinality(DOMAIN cache) >= size
        THEN [cache |-> cache, err |-> "cache size limit reached"]
    ELSE IF Unmarshal(op.ResourceData).err # ""
        THEN [cache |-> cache, err |-> Unmarshal(op.ResourceData).err]
    ELSE [cache |-> [k \in DOMAIN cache \cup {CacheKey(op)} |->
                        IF k = CacheKey(op) THEN Unmarshal(op.ResourceData).obj
                        ELSE cache[k]],
          err |-> ""]

\* NewReplayEngine: the engine built from cfg, whose Operations is not nil
\* and of at most maxOperationsInMemory elements and whose SessionID is not
\* empty (or no engine is built)
NewReplayEngineOK(cfg) ==
    /\ AssertStringNotEmpty(cfg.SessionID)
    /\ AssertInRange(OpsLen(cfg.Operations), 0, maxOperationsInMemory)

NewReplayEngine(cfg) ==
    [operations |-> cfg.Operations,
     currentIndex |-> 0,
     maxIndex |-> OpsLen(cfg.Operations),
     stateCache |-> << >>,
     maxCacheSize |-> IF cfg.MaxCacheSize <= 0 THEN defaultMaxCacheSize
                      ELSE cfg.MaxCacheSize]

\* fn is the call, prev the call before it
NoEngineCall == [fn |-> "", prev |-> "", err |-> "", n |-> 0, op |-> << >>]

\* a test for the end of the log that lets the index maxIdx through
PastEnd(index, maxIdx) == index > maxIdx

\* StepForward's test for the end of the log
AtEnd(index, maxIdx) == index >= maxIdx

\* a StepForward that updates the cache first and, when that fails, returns
\* the error alone and stays where it is
StepForwardCacheFirst ==
    IF AtEnd(currentIndex, maxIndex)
        THEN /\ elast' = [NoEngineCall EXCEPT !.prev = elast.fn, !.fn = "StepForward",
                                              !.err = "at end of replay"]
             /\ UNCHANGED <<operations, currentIndex, maxIndex, stateCache, maxCacheSize>>
    ELSE LET op == OpsAt(operations, currentIndex)
             res == updateCache(stateCache, maxCacheSize, op)
         IN  IF res.err # ""
             THEN /\ elast' = [NoEngineCall EXCEPT !.prev = elast.fn, !.fn = "StepForward",
                                  !.err = "cache update failed: " \o res.err]
                  /\ UNCHANGED <<operations, currentIndex, maxIndex, stateCache,
                                 maxCacheSize>>
             ELSE /\ currentIndex' = currentIndex + 1
                  /\ stateCache' = res.cache
                  /\ elast' = [NoEngineCall EXCEPT !.prev = elast.fn, !.fn = "StepForward",
                                                   !.op = <<op>>]
                  /\ UNCHANGED <<operations, maxIndex, maxCacheSize>>

\* ReplayEngine.StepForward
StepForward ==
    IF AtEnd(currentIndex, maxIndex)
        THEN /\ elast' = [NoEngineCall EXCEPT !.prev = elast.fn, !.fn = "StepForward",
                                              !.err = "at end of replay"]
             /\ UNCHANGED <<operations, currentIndex, maxIndex, stateCache, maxCacheSize>>
    ELSE LET op == OpsAt(operations, currentIndex)
             res == updateCache(stateCache, maxCacheSize, op)
         IN  /\ currentIndex' = currentIndex + 1
             /\ stateCache' = res.cache
             /\ elast' = [NoEngineCall EXCEPT !.prev = elast.fn, !.fn = "StepForward", !.op = <<op>>,
                            !.err = IF res.err = "" THEN ""
                                    ELSE "cache update failed: " \o res.err]
             /\ UNCHANGED <<operations, maxIndex, maxCacheSize>>

\* a StepBackward that takes the operation before it moves the index
StepBackwardReadFirst ==
    IF currentIndex <= 0
        THEN /\ elast' = [NoEngineCall EXCEPT !.prev = elast.fn, !.fn = "StepBackward",
                                              !.err = "at beginning of replay"]
             /\ UNCHANGED <<operations, currentIndex, maxIndex, stateCache, maxCacheSize>>
    ELSE /\ currentIndex' = currentIndex - 1
         /\ elast' = [NoEngineCall EXCEPT !.prev = elast.fn, !.fn = "StepBackward",
                        !.op = <<OpsAt(operations, currentIndex)>>]
         /\ UNCHANGED <<operations, maxIndex, stateCache, maxCacheSize>>

\* ReplayEngine.StepBackward
StepBackward ==
    IF currentIndex <= 0
        THEN /\ elast' = [NoEngineCall EXCEPT !.prev = elast.fn, !.fn = "StepBackward",
                                              !.err = "at beginning of replay"]
             /\ UNCHANGED <<operations, currentIndex, maxIndex, stateCache, maxCacheSize>>
    ELSE /\ currentIndex' = currentIndex - 1
         /\ elast' = [NoEngineCall EXCEPT !.prev = elast.fn, !.fn = "StepBackward",
                        !.op = <<OpsAt(operations, currentIndex - 1)>>]
         /\ UNCHANGED <<operations, maxIndex, stateCache, maxCacheSize>>

\* StepNTarget without the two clamps
StepNTargetUnclamped(index, n, maxIdx) == index + n

\* the index StepN(n) moves to: currentIndex + n clamped to [0, maxIndex]
StepNTarget(index, n, maxIdx) ==
    IF index + n < 0 THEN 0
    ELSE IF index + n > maxIdx THEN maxIdx
    ELSE index + n

\* the bound check of StepN with the upper bound lowered by one
StepInRangeShort(n) == AssertInRange(n, -maxStepSize, maxStepSize - 1)

\* the bound check of StepN
StepInRange(n) == AssertInRange(n, -maxStepSize, maxStepSize)

\* a StepN that empties the cache when it steps back
StepNClearing(n) ==
    IF ~StepInRange(n)
        THEN /\ elast' = [NoEngineCall EXCEPT !.prev = elast.fn, !.fn = "StepN", !.n = n,
                                              !.err = "range error: step count"]
             /\ UNCHANGED <<operations, currentIndex, maxIndex, stateCache, maxCacheSize>>
    ELSE /\ currentIndex' = StepNTarget(currentIndex, n, maxIndex)
         /\ stateCache' = IF n < 0 THEN << >> ELSE stateCache
         /\ elast' = [NoEngineCall EXCEPT !.prev = elast.fn, !.fn = "StepN", !.n = n]
         /\ UNCHANGED <<operations, maxIndex, maxCacheSize>>

\* ReplayEngine.StepN
StepN(n) ==
    IF ~StepInRange(n)
        THEN /\ elast' = [NoEngineCall EXCEPT !.prev = elast.fn, !.fn = "StepN", !.n = n,
                                              !.err = "range error: step count"]
             /\ UNCHANGED <<operations, currentIndex, maxIndex, stateCache, maxCacheSize>>
    ELSE /\ currentIndex' = StepNTarget(currentIndex, n, maxIndex)
         /\ elast' = [NoEngineCall EXCEPT !.prev = elast.fn, !.fn = "StepN", !.n = n]
         /\ UNCHANGED <<operations, maxIndex, stateCache, maxCacheSize>>

\* ReplayEngine.Reset
Reset ==
    /\ currentIndex' = 0
    /\ stateCache' = << >>
    /\ elast' = [NoEngineCall EXCEPT !.prev = elast.fn, !.fn = "Reset"]
    /\ UNCHANGED <<operations, maxIndex, maxCacheSize>>


(***************************************************************************)
(* Inputs.                                                                  *)
(***************************************************************************)
\* An Operation as the recorder and the tests build it
Op(sessionID, seq) ==
    [SessionID |-> sessionID, SequenceNumber |-> seq, Timestamp |-> 5000,
     OperationType |-> "GET", ResourceKind |-> "Pod", Namespace |-> "default",
     Name |-> "a", ResourceData |-> "{}", Error |-> "", DurationMs |-> 100,
     ActorID |-> "ctl", UID |-> "u1", ResourceVersion |-> "7",
     Generation |-> 1, Verb |-> "GET"]

Sessions == {"s1", "s2"}

ValidOps == {Op("s1", 1), Op("s1", 2), Op("s1", 3), Op("s2", 1)}

InvalidOps ==
    {Op("", 1),
     [Op("s1", 1) EXCEPT !.ResourceKind = LongKind],
     [Op("s1", 2) EXCEPT !.Error = LongError],
     [Op("s2", 1) EXCEPT !.OperationType = LongOpType]}

\* Operations with a negative duration, as a caller of InsertOperation can
\* pass them
NegativeDurationOps == {[Op("s1", 2) EXCEPT !.DurationMs = -1]}

\* An operation stamped between two whole seconds, as time.Now() stamps it
SubSecondOps == {[Op("s2", 2) EXCEPT !.Timestamp = 5500]}

OpInputs == ValidOps \cup InvalidOps \cup NegativeDurationOps \cup SubSecondOps

\* (start, end) arguments of QueryOperationsByRange
RangeInputs == {<<-1, 1>>, <<-1, 3>>, <<0, 0>>, <<0, 3>>, <<1, 1>>, <<1, 2>>,
                <<1, 3>>, <<2, 3>>, <<3, 3>>, <<2, 1>>, <<3, 0>>}

\* Config.MaxOperations values NewDatabase accepts
MaxOperationsInputs == {1, 2, defaultMaxOperations}

\* A ReconcileSpan as reconciletrace.Start builds it
Span(id, sessionID, start) ==
    [ID |-> id, SessionID |-> sessionID, ActorID |-> "ctl", StartTime |-> start,
     EndTime |-> << >>, DurationMs |-> 0, Kind |-> "Pod", Namespace |-> "default",
     Name |-> "a", TriggerUID |-> "u1", TriggerResourceVersion |-> "7",
     TriggerReason |-> "update", Error |-> ""]

SpanInputs ==
    {Span("a", "s1", 2000), Span("b", "s1", 3000), Span("b", "s2", 2000),
     [Span("a", "s1", 2000) EXCEPT !.EndTime = <<4000>>, !.DurationMs = 2000],
     [Span("b", "s1", 3000) EXCEPT !.EndTime = <<1000>>],
     [Span("a", "s2", 2000) EXCEPT !.DurationMs = -1],
     Span("", "s1", 2000),
     [Span("b", "s1", 2000) EXCEPT !.Error = LongError]}

\* arguments of EndReconcileSpan
SpanIdInputs == {"a", "b", "zz", ""}
EndTimeInputs == {1000, 4000}
DurationInputs == {-1, 7}
ErrMsgInputs == {"", LongError}

(***************************************************************************)
(* The store of operations: SpecOps.                                        *)
(***************************************************************************)
NoRecorders == << >>
NoEngine == NewReplayEngine([Operations |-> [cycle |-> <<Op("s1", 1)>>, len |-> 0],
                             SessionID |-> "s1", MaxCacheSize |-> 0])

NotCalled == [called |-> FALSE]

NoEnum == [pc |-> "idle"]

\* no analysis is asked for
IdleAnalysis == aIn = [fn |-> ""] /\ aOut = NotCalled /\ enum = NoEnum

\* the recorder and the engine at rest
IdleRecorder == recorders = NoRecorders /\ rlast = NoRecorderCall

IdleEngine ==
    /\ operations = NoEngine.operations
    /\ currentIndex = NoEngine.currentIndex
    /\ maxIndex = NoEngine.maxIndex
    /\ stateCache = NoEngine.stateCache
    /\ maxCacheSize = NoEngine.maxCacheSize
    /\ elast = NoEngineCall

\* NewDatabase: the schema is created with empty tables
NewDatabase(maxOps) ==
    /\ AssertInRange(maxOps, 1, defaultMaxOperations)
    /\ dbOperations = << >>
    /\ dbSpans = << >>
    /\ maxOperations = maxOps
    /\ last = NoCall

InitOps ==
    /\ \E m \in MaxOperationsInputs : NewDatabase(m)
    /\ IdleRecorder
    /\ IdleEngine
    /\ IdleAnalysis

NextOps ==
    \/ \E op \in OpInputs, ok \in BOOLEAN :
          InsertOperation(op, ok) /\ UNCHANGED <<recorderVars, engineVars, analysisVars>>
    \/ \E sid \in Sessions \cup {""} :
          QueryOperations(sid) /\ UNCHANGED <<recorderVars, engineVars, analysisVars>>
    \/ \E sid \in Sessions \cup {""}, r \in RangeInputs :
          QueryOperationsByRange(sid, r[1], r[2]) /\ UNCHANGED <<recorderVars, engineVars, analysisVars>>

SpecOps == InitOps /\ [][NextOps]_vars

(***************************************************************************)
(* The store of reconcile spans: SpecSpans.                                 *)
(***************************************************************************)
InitSpans ==
    /\ NewDatabase(defaultMaxOperations)
    /\ IdleRecorder
    /\ IdleEngine
    /\ IdleAnalysis

NextSpans ==
    \/ \E span \in SpanInputs, ok \in BOOLEAN :
          InsertReconcileSpan(span, ok) /\ UNCHANGED <<recorderVars, engineVars, analysisVars>>
    \/ \E id \in SpanIdInputs, t \in EndTimeInputs, d \in DurationInputs,
          e \in ErrMsgInputs, ok \in BOOLEAN :
          EndReconcileSpan(id, t, d, e, ok) /\ UNCHANGED <<recorderVars, engineVars, analysisVars>>
    \/ \E sid \in Sessions \cup {""} :
          QueryReconcileSpans(sid) /\ UNCHANGED <<recorderVars, engineVars, analysisVars>>

SpecSpans == InitSpans /\ [][NextSpans]_vars


(***************************************************************************)
(* Recorders writing to one store: SpecRecorder.                            *)
(***************************************************************************)
RecorderIds == {1, 2}

\* Config values NewRecordingClient accepts
RecorderConfigs ==
    {[SessionID |-> "s1", MaxSequence |-> 0, ActorID |-> ""],
     [SessionID |-> "s1", MaxSequence |-> 2, ActorID |-> "ctl"],
     [SessionID |-> "s2", MaxSequence |-> 1, ActorID |-> "ctl"]}

Pod == [uid |-> "u1", resourceVersion |-> "7", generation |-> 1,
        json |-> "{\"kind\":\"Pod\"}"]

\* arguments of recordOperation as RecordGet and RecordCreate pass them
RecordInputs ==
    {[opType |-> "GET", kind |-> "Pod", namespace |-> "default", name |-> "a",
      obj |-> <<Pod>>, err |-> "", duration |-> 100],
     [opType |-> "GET", kind |-> "Pod", namespace |-> "default", name |-> "b",
      obj |-> << >>, err |-> "not found", duration |-> 3],
     [opType |-> "CREATE", kind |-> LongKind, namespace |-> "default", name |-> "a",
      obj |-> <<Pod>>, err |-> "", duration |-> 100]}

\* calls of RecordGet and RecordDelete with what the Kubernetes client
\* returns for them
ClientCalls ==
    {[opType |-> "GET", kind |-> "Pod", namespace |-> "default", name |-> "a",
      obj |-> <<Pod>>, err |-> "", duration |-> 100],
     [opType |-> "GET", kind |-> "Job", namespace |-> "default", name |-> "a",
      obj |-> << >>, err |-> "", duration |-> 0],
     [opType |-> "DELETE", kind |-> "Secret", namespace |-> "default", name |-> "b",
      obj |-> << >>, err |-> "not found", duration |-> 3],
     [opType |-> "DELETE", kind |-> "Pod", namespace |-> "default", name |-> "a",
      obj |-> << >>, err |-> "", duration |-> 0]}

InitRecorder ==
    /\ NewDatabase(defaultMaxOperations)
    /\ recorders \in [RecorderIds -> {NewRecordingClient(cfg) : cfg \in RecorderConfigs}]
    /\ rlast = NoRecorderCall
    /\ IdleEngine
    /\ IdleAnalysis

NextRecorder ==
    \/ \E r \in RecorderIds, c \in RecordInputs, ok \in BOOLEAN :
          recordOperation(r, c, 5000, ok) /\ UNCHANGED <<engineVars, analysisVars>>
    \/ \E r \in RecorderIds : Enable(r) /\ UNCHANGED <<engineVars, analysisVars>>
    \/ \E r \in RecorderIds : Disable(r) /\ UNCHANGED <<engineVars, analysisVars>>

SpecRecorder == InitRecorder /\ [][NextRecorder]_vars

\* The recorder as its callers use it: RecordGet, RecordDelete, Enable and
\* Disable
NextRecordCalls ==
    \/ \E r \in RecorderIds, c \in ClientCalls, ok \in BOOLEAN :
          RecordGet(r, c, 5000, ok) /\ UNCHANGED <<engineVars, analysisVars>>
    \/ \E r \in RecorderIds, c \in ClientCalls, ok \in BOOLEAN :
          RecordDelete(r, c, 5000, ok) /\ UNCHANGED <<engineVars, analysisVars>>
    \/ \E r \in RecorderIds : Enable(r) /\ UNCHANGED <<engineVars, analysisVars>>
    \/ \E r \in RecorderIds : Disable(r) /\ UNCHANGED <<engineVars, analysisVars>>

SpecRecordCalls == InitRecorder /\ [][NextRecordCalls]_vars

\* the recorders have pairwise distinct session ids
DistinctSessions ==
    \A r1, r2 \in RecorderIds :
        r1 # r2 => recorders[r1].sessionID # recorders[r2].sessionID

\* Recorders of distinct sessions that write to one store, in any
\* interleaving, and the queries of their sessions
InitSessions == InitRecorder /\ DistinctSessions

NextSessions ==
    \/ \E r \in RecorderIds, c \in RecordInputs, ok \in BOOLEAN :
          recordOperation(r, c, 5000, ok) /\ UNCHANGED <<engineVars, analysisVars>>
    \/ \E sid \in Sessions :
          /\ QueryOperations(sid)
          /\ UNCHANGED <<recorders, rlast, engineVars, analysisVars>>

SpecSessions == InitSessions /\ [][NextSessions]_vars

(***************************************************************************)
(* One replay engine: SpecReplay.                                           *)
(***************************************************************************)
\* An operation on the object kind/default/name with payload data
ReplayOp(name, data) == [Op("s1", 1) EXCEPT !.Name = name, !.ResourceData = data]

\* Config.Operations values
ReplayLogs ==
    {[cycle |-> <<ReplayOp("a", "null")>>, len |-> 0],
     [cycle |-> <<ReplayOp("a", "null"), ReplayOp("a", "null")>>, len |-> 2],
     [cycle |-> <<ReplayOp("a", "null"), ReplayOp("b", "null"),
                  ReplayOp("c", "null")>>, len |-> 3],
     [cycle |-> <<ReplayOp("a", ""), ReplayOp("b", "{\"kind\":\"Pod\"}"),
                  ReplayOp("c", "null"), ReplayOp("b", "null")>>, len |-> 4],
     [cycle |-> <<ReplayOp("a", "null"), ReplayOp("b", "")>>, len |-> MaxReplayLen]}

\* Config.MaxCacheSize values
MaxCacheSizeInputs == {-1, 0, 1, 2}

\* arguments of StepN
StepInputs == {-(maxStepSize + 1), -maxStepSize, -2, -1, 0, 1, 2, 3, 4,
               maxStepSize, maxStepSize + 1}

InitReplay ==
    /\ NewDatabase(defaultMaxOperations)
    /\ IdleRecorder
    /\ \E log \in ReplayLogs, size \in MaxCacheSizeInputs :
          LET cfg == [Operations |-> log, SessionID |-> "s1", MaxCacheSize |-> size]
          IN  /\ NewReplayEngineOK(cfg)
              /\ operations = NewReplayEngine(cfg).operations
              /\ currentIndex = NewReplayEngine(cfg).currentIndex
              /\ maxIndex = NewReplayEngine(cfg).maxIndex
              /\ stateCache = NewReplayEngine(cfg).stateCache
              /\ maxCacheSize = NewReplayEngine(cfg).maxCacheSize
    /\ elast = NoEngineCall
    /\ IdleAnalysis

NextReplay ==
    \/ StepForward /\ UNCHANGED <<storeVars, recorderVars, analysisVars>>
    \/ StepBackward /\ UNCHANGED <<storeVars, recorderVars, analysisVars>>
    \/ \E n \in StepInputs : StepN(n) /\ UNCHANGED <<storeVars, recorderVars, analysisVars>>
    \/ Reset /\ UNCHANGED <<storeVars, recorderVars, analysisVars>>

SpecReplay == InitReplay /\ [][NextReplay]_vars

(***************************************************************************)
(* Properties of the store of operations (checked under SpecOps).           *)
(***************************************************************************)
\* the rowids of the operations stored for session sid
SessionRows(sid) == {i \in 1..Len(dbOperations) : dbOperations[i].session_id = sid}

\* C1: no two stored operations share the same (session_id,
\* sequence_number).
C1_UniqueSessionSequence ==
    \A i, j \in 1..Len(dbOperations) :
        (/\ dbOperations[i].session_id = dbOperations[j].session_id
         /\ dbOperations[i].sequence_number = dbOperations[j].sequence_number)
        => i = j

\* C4: a store opened with operation limit maxOperations never holds more
\* than maxOperations operations of one session.
C4_SessionCapacity ==
    \A sid \in Sessions : Cardinality(SessionRows(sid)) <= maxOperations

\* the elements of ops whose SequenceNumber lies in [lo, hi], in the order of ops
InRange(ops, lo, hi) ==
    SelectSeq(ops, LAMBDA o : lo <= o.SequenceNumber /\ o.SequenceNumber <= hi)

\* the fields an Operation is declared with, apart from ID and Timestamp
OperationFields ==
    {"SessionID", "SequenceNumber", "OperationType", "ResourceKind", "Namespace",
     "Name", "ResourceData", "Error", "DurationMs", "ActorID", "UID",
     "ResourceVersion", "Generation", "Verb"}

\* the instant t in whole seconds
WholeSeconds(t) == (t \div 1000) * 1000

\* C31 as stated: QueryOperations(op.SessionID) right after a successful
\* InsertOperation(op) returns a record with an id of the store that equals
\* op on every field, Timestamp included.
C31_InsertThenQuery_AsStated ==
    [][(/\ last.fn = "InsertOperation" /\ last.err = ""
        /\ last'.fn = "QueryOperations" /\ last'.sid = last.arg[1].SessionID)
       => /\ last'.err = ""
          /\ \E i \in 1..Len(last'.rows) :
                /\ last'.rows[i].ID >= 1
                /\ last'.rows[i].Timestamp = last.arg[1].Timestamp
                /\ \A f \in OperationFields : last'.rows[i][f] = last.arg[1][f]]_vars

\* C31 amended: in a session of at most maxQueryResults operations,
\* QueryOperations(op.SessionID) right after a successful InsertOperation(op)
\* returns a record with an id of the store that equals op on every field
\* but Timestamp, and whose Timestamp is that of op in whole seconds.
C31_InsertThenQuery ==
    [][(/\ last.fn = "InsertOperation" /\ last.err = ""
        /\ Cardinality(SessionRows(last.arg[1].SessionID)) <= maxQueryResults
        /\ last'.fn = "QueryOperations" /\ last'.sid = last.arg[1].SessionID)
       => /\ last'.err = ""
          /\ \E i \in 1..Len(last'.rows) :
                /\ last'.rows[i].ID >= 1
                /\ \A j \in 1..Len(last'.rows) :
                      j # i => last'.rows[j].ID # last'.rows[i].ID
                /\ last'.rows[i].Timestamp = WholeSeconds(last.arg[1].Timestamp)
                /\ \A f \in OperationFields : last'.rows[i][f] = last.arg[1][f]]_vars

\* C31: QueryOperations has returned, next to another operation of the
\* session, the operation of SubSecondOps at a Timestamp of whole seconds
C31_Witness ==
    /\ last.fn = "QueryOperations" /\ last.err = ""
    /\ Len(last.rows) = 2
    /\ \E i \in 1..Len(last.rows), op \in SubSecondOps :
          /\ last.rows[i].Timestamp = WholeSeconds(op.Timestamp)
          /\ last.rows[i].Timestamp # op.Timestamp
          /\ \A f \in OperationFields : last.rows[i][f] = op[f]

\* C7 as stated: for every session sid and lo <= hi,
\* QueryOperationsByRange(sid, lo, hi) succeeds and returns the elements of
\* QueryOperations(sid) with sequence number in [lo, hi], in the same order.
C7_RangeEqualsFilteredQuery_AsStated ==
    (/\ last.fn = "QueryOperationsByRange"
     /\ last.sid \in Sessions
     /\ last.lo <= last.hi)
    => /\ last.err = ""
       /\ last.rows = InRange(QueryOperationsResult(last.sid)[1], last.lo, last.hi)

\* C7 amended: for every session sid that holds at most maxQueryResults
\* operations and every 0 <= lo <= hi, QueryOperationsByRange(sid, lo, hi)
\* succeeds and returns the elements of QueryOperations(sid) with sequence
\* number in [lo, hi], in the same order.
C7_RangeEqualsFilteredQuery ==
    (/\ last.fn = "QueryOperationsByRange"
     /\ last.sid \in Sessions
     /\ Cardinality(SessionRows(last.sid)) <= maxQueryResults
     /\ 0 <= last.lo
     /\ last.lo <= last.hi)
    => /\ last.err = ""
       /\ QueryOperationsResult(last.sid)[2] = ""
       /\ last.rows = InRange(QueryOperationsResult(last.sid)[1], last.lo, last.hi)

\* C7's case: a range query that returns some but not all of the session's
\* operations
C7_Witness ==
    /\ last.fn = "QueryOperationsByRange"
    /\ last.err = ""
    /\ 0 < last.lo
    /\ Len(last.rows) >= 2
    /\ Len(last.rows) < Len(QueryOperationsResult(last.sid)[1])

\* C10: QueryOperations(sid) returns only operations of session sid, in
\* strictly ascending sequence number, and at most maxQueryResults of them.
C10_QueryStrictlyAscending ==
    (last.fn = "QueryOperations" /\ last.err = "")
    => /\ \A i \in 1..Len(last.rows) : last.rows[i].SessionID = last.sid
       /\ \A i \in 1..(Len(last.rows) - 1) :
             last.rows[i].SequenceNumber < last.rows[i + 1].SequenceNumber
       /\ Len(last.rows) <= maxQueryResults

\* op violates a declared invariant of the record: its duration is negative
\* (I3) or one of its fields is longer than the declared maximum (I6)
ViolatesRecordInvariant(op) ==
    \/ op.DurationMs < 0
    \/ StrLen(op.ResourceKind) > maxResourceKindLength
    \/ StrLen(op.Namespace) > maxNamespaceLength
    \/ StrLen(op.Name) > maxNameLength
    \/ StrLen(op.ResourceData) > maxDataLength
    \/ StrLen(op.Error) > maxErrorLength
    \/ StrLen(op.ActorID) > maxActorIDLength
    \/ StrLen(op.UID) > maxUIDLength
    \/ StrLen(op.ResourceVersion) > maxResourceVersionLen
    \/ StrLen(op.Verb) > maxVerbLength

\* C11: InsertOperation rejects with a validation error, and without adding
\* a record, every operation with a negative duration or a field longer than
\* its declared maximum.
C11_InvalidRecordsRejected ==
    [][(last'.fn = "InsertOperation" /\ ViolatesRecordInvariant(last'.arg[1]))
       => (last'.err = "validation failed" /\ dbOperations' = dbOperations)]_vars

(***************************************************************************)
(* Properties of the store of reconcile spans (checked under SpecSpans).    *)
(***************************************************************************)
\* C3: EndReconcileSpan with an id for which no span has been inserted
\* returns an error and leaves the store unchanged.
C3_CloseUnknownSpanFails ==
    [][(/\ last'.fn = "EndReconcileSpan"
        /\ last'.arg[1].id # ""
        /\ last'.arg[1].id \notin SpanIds(dbSpans))
       => (last'.err # "" /\ dbSpans' = dbSpans)]_vars

\* C6: every stored span that has an end_ts satisfies end_ts >= start_ts and
\* duration_ms >= 0.
C6_ClosedSpansWellFormed ==
    \A i \in 1..Len(dbSpans) :
        dbSpans[i].end_ts # << >>
        => /\ dbSpans[i].end_ts[1] >= dbSpans[i].start_ts
           /\ (dbSpans[i].duration_ms = << >> \/ dbSpans[i].duration_ms[1] >= 0)


(***************************************************************************)
(* Properties of the recorder (checked under SpecRecorder).                 *)
(***************************************************************************)
\* a step in which recorder r is given a sequence number gives it the
\* number after the counter, and the counter never goes down
C5_Numbering(r) ==
    /\ recorders'[r].sequenceNum >= recorders[r].sequenceNum
    /\ (rlast'.fn = "recordOperation" /\ rlast'.r = r /\ rlast'.seq # 0)
       => /\ rlast'.seq = recorders[r].sequenceNum + 1
          /\ recorders'[r].sequenceNum = rlast'.seq
          /\ last'.arg[1].SequenceNumber = rlast'.seq
          /\ rlast'.inserted => dbOperations'[Len(dbOperations')].sequence_number = rlast'.seq

\* a call of recordOperation by r fails and changes neither the table nor
\* the counter
C5_Refused(r) ==
    /\ rlast'.err # ""
    /\ dbOperations' = dbOperations
    /\ recorders' = recorders

\* C5 as stated: the sequence numbers a recorder gives are strictly
\* increasing from 1, its counter never exceeds maxSequence, and once the
\* counter equals maxSequence every further call of recordOperation fails
\* without inserting and without changing the counter.
C5_SequenceNumbers_AsStated ==
    /\ \A r \in RecorderIds : recorders[r].sequenceNum = 0
    /\ [](\A r \in RecorderIds : recorders[r].sequenceNum <= recorders[r].maxSequence)
    /\ [][\A r \in RecorderIds :
            /\ C5_Numbering(r)
            /\ (/\ rlast'.fn = "recordOperation" /\ rlast'.r = r
                /\ recorders[r].sequenceNum = recorders[r].maxSequence)
               => C5_Refused(r)]_vars

\* C5 amended: the sequence numbers a recorder gives are strictly increasing
\* from 1, its counter never exceeds maxSequence, and once the counter
\* equals maxSequence every further call of recordOperation made while the
\* recorder is enabled fails without inserting and without changing the
\* counter.
C5_SequenceNumbers ==
    /\ \A r \in RecorderIds : recorders[r].sequenceNum = 0
    /\ [](\A r \in RecorderIds : recorders[r].sequenceNum <= recorders[r].maxSequence)
    /\ [][\A r \in RecorderIds :
            /\ C5_Numbering(r)
            /\ (/\ rlast'.fn = "recordOperation" /\ rlast'.r = r
                /\ recorders[r].enabled
                /\ recorders[r].sequenceNum = recorders[r].maxSequence)
               => C5_Refused(r)]_vars

\* C5's case: an enabled recorder that has given the numbers 1 and 2 and is
\* refused a third
C5_Witness ==
    /\ rlast.fn = "recordOperation"
    /\ rlast.err = "max sequence number reached"
    /\ recorders[rlast.r].enabled
    /\ recorders[rlast.r].sequenceNum = 2
    /\ recorders[rlast.r].maxSequence = 2
    /\ \E i, j \in SessionRows(recorders[rlast.r].sessionID) :
          /\ i < j
          /\ dbOperations[i].sequence_number = 1
          /\ dbOperations[j].sequence_number = 2

(***************************************************************************)
(* Properties of the recorder, continued.                                   *)
(***************************************************************************)
\* C17: when the store fails or rejects the insert of a call of
\* recordOperation, nothing is inserted and the recorder's counter stays at
\* the number the call used; a counter never goes down and every number a
\* recorder gives is its counter plus one, so that number is not given again
\* and the next recorded operation carries the following one.
C17_FailedInsertKeepsNumber ==
    [][\A r \in RecorderIds :
        /\ recorders'[r].sequenceNum >= recorders[r].sequenceNum
        /\ (rlast'.fn = "recordOperation" /\ rlast'.r = r /\ rlast'.seq # 0)
           => rlast'.seq = recorders[r].sequenceNum + 1
        /\ (/\ rlast'.fn = "recordOperation" /\ rlast'.r = r
            /\ rlast'.err = "failed to record operation")
           => /\ rlast'.seq # 0
              /\ last'.err # ""
              /\ ~rlast'.inserted
              /\ dbOperations' = dbOperations
              /\ recorders'[r].sequenceNum = rlast'.seq]_vars

\* C17's case: a recorder is given the number 2 for an operation that is
\* inserted, after its insert with the number 1 failed (no row of its
\* session has the number 1)
C17_Witness ==
    /\ rlast.fn = "recordOperation"
    /\ rlast.inserted
    /\ rlast.seq = 2
    /\ \A i \in SessionRows(recorders[rlast.r].sessionID) :
          dbOperations[i].sequence_number # 1

\* the arguments with which RecordGet and RecordDelete get as far as the
\* Kubernetes client
ReachesClient(fn, c) ==
    IF fn = "RecordGet"
    THEN c.kind \in {"Pod", "Service", "Deployment", "ConfigMap", "Secret"}
    ELSE /\ c.kind \in {"ConfigMap", "Secret"}
         /\ c.namespace # ""
         /\ c.name # ""

C19_SessionsDoNotInterfere ==
    [][DistinctSessions =>
        \A r \in RecorderIds :
            LET sid == recorders[r].sessionID
                before == QueryOperationsOn(dbOperations, sid)
                after == QueryOperationsOn(dbOperations', sid)
            IN  IF rlast' # rlast /\ rlast'.fn = "recordOperation" /\ rlast'.r = r
                   /\ rlast'.inserted
                THEN /\ last'.arg[1].SessionID = sid
                     /\ last'.arg[1].SequenceNumber = recorders[r].sequenceNum + 1
                     /\ after = <<Append(before[1],
                                    ScanOperation(OperationRow(last'.arg[1], Len(dbOperations')))),
                                  "">>
                ELSE after = before]_vars

\* C19's case: QueryOperations returns the two operations of a session whose
\* rows have a row of the other recorder's session between them
C19_Witness ==
    /\ DistinctSessions
    /\ last.fn = "QueryOperations"
    /\ last.err = ""
    /\ Len(last.rows) = 2
    /\ last.rows[1].SequenceNumber = 1 /\ last.rows[2].SequenceNumber = 2
    /\ Len(dbOperations) = 3
    /\ dbOperations[1].session_id = last.sid
    /\ dbOperations[2].session_id # last.sid
    /\ dbOperations[3].session_id = last.sid

(***************************************************************************)
(* Properties of the replay engine (checked under SpecReplay).              *)
(***************************************************************************)
\* ReplayEngine.GetProgress: <<current, total>>
GetProgress == <<currentIndex, maxIndex>>

\* C2: after every call of StepForward, StepBackward, StepN and Reset,
\* failed or not, 0 <= currentIndex <= maxIndex, and maxIndex is the number
\* of loaded operations.
C2_IndexInBounds ==
    /\ 0 <= currentIndex
    /\ currentIndex <= maxIndex
    /\ maxIndex = OpsLen(operations)

\* C2's case: StepN asked to go past the end of a log that is not empty
C2_Witness ==
    /\ elast.fn = "StepN"
    /\ elast.err = ""
    /\ elast.n > maxIndex
    /\ maxIndex > 0
    /\ currentIndex = maxIndex

\* C8 as stated: for every n in [0, maxIndex], Reset and then StepN(n)
\* succeeds and leaves GetProgress's current equal to n.
C8_ResetThenStepN_AsStated ==
    (/\ elast.prev = "Reset"
     /\ elast.fn = "StepN"
     /\ 0 <= elast.n
     /\ elast.n <= maxIndex)
    => (elast.err = "" /\ GetProgress[1] = elast.n)

\* C8 amended: for every n in [0, maxIndex] that is at most maxStepSize,
\* Reset and then StepN(n) succeeds and leaves GetProgress's current equal
\* to n.
C8_ResetThenStepN ==
    (/\ elast.prev = "Reset"
     /\ elast.fn = "StepN"
     /\ 0 <= elast.n
     /\ elast.n <= Min(maxIndex, maxStepSize))
    => (elast.err = "" /\ GetProgress[1] = elast.n)

\* C8's case: Reset and then the longest step StepN takes
C8_Witness ==
    /\ elast.prev = "Reset"
    /\ elast.fn = "StepN"
    /\ elast.n = maxStepSize
    /\ maxIndex > maxStepSize
    /\ GetProgress[1] = maxStepSize

\* caching the payload of op would make the cache hold more than
\* maxCacheSize distinct keys
WouldOverfill(op) ==
    /\ StrLen(op.ResourceData) # 0
    /\ Cardinality(DOMAIN stateCache \cup {CacheKey(op)}) > maxCacheSize

\* C9: the cache never holds more than maxCacheSize keys, a StepForward
\* removes no entry, and a StepForward that returns an operation returns the
\* cache-capacity error if and only if caching that operation's payload
\* would make the cache hold more than maxCacheSize distinct keys.
C9_CacheCapacityErrorIff ==
    /\ [](Cardinality(DOMAIN stateCache) <= maxCacheSize)
    /\ [][(elast'.fn = "StepForward" /\ currentIndex < maxIndex)
          => /\ DOMAIN stateCache \subseteq DOMAIN stateCache'
             /\ (elast'.err = "cache update failed: cache size limit reached")
                <=> WouldOverfill(OpsAt(operations, currentIndex))]_vars

\* C25: StepForward at currentIndex = maxIndex and StepBackward at
\* currentIndex = 0 each return an error (and no operation) and leave
\* currentIndex and the state cache unchanged.
C25_StepAtTheEnds ==
    [][/\ (elast'.fn = "StepForward" /\ currentIndex = maxIndex)
          => /\ elast'.err # ""
             /\ elast'.op = << >>
             /\ currentIndex' = currentIndex
             /\ stateCache' = stateCache
       /\ (elast'.fn = "StepBackward" /\ currentIndex = 0)
          => /\ elast'.err # ""
             /\ elast'.op = << >>
             /\ currentIndex' = currentIndex
             /\ stateCache' = stateCache]_vars

\* C25's case: StepForward has failed at the end of a log, the cache holding
\* an entry
C25_Witness ==
    /\ elast.fn = "StepForward"
    /\ elast.err = "at end of replay"
    /\ currentIndex = maxIndex
    /\ maxIndex > 0
    /\ stateCache # << >>


\* C26: at an index i with 0 <= i < maxIndex, StepForward returns
\* operations[i] and moves the index to i + 1, and a StepBackward that
\* follows it returns the same operation, without error, and moves the index
\* back to i.  (StepForward returns the operation also when it returns a
\* cache error with it.)
C26_ForwardThenBackward ==
    [][/\ (elast'.fn = "StepForward" /\ 0 <= currentIndex /\ currentIndex < maxIndex)
          => /\ elast'.op = <<OpsAt(operations, currentIndex)>>
             /\ currentIndex' = currentIndex + 1
       /\ (elast.fn = "StepForward" /\ elast.op # << >> /\ elast'.fn = "StepBackward")
          => /\ elast'.op = elast.op
             /\ elast'.err = ""
             /\ currentIndex' = currentIndex - 1]_vars

\* C26's case: StepForward from an index inside a log whose operations
\* differ, then StepBackward
C26_Witness ==
    /\ elast.prev = "StepForward"
    /\ elast.fn = "StepBackward"
    /\ elast.err = ""
    /\ currentIndex > 0
    /\ currentIndex + 1 < maxIndex
    /\ elast.op = <<OpsAt(operations, currentIndex)>>
    /\ OpsAt(operations, currentIndex) # OpsAt(operations, currentIndex + 1)
    /\ OpsAt(operations, currentIndex) # OpsAt(operations, currentIndex - 1)


\* the keys the step adds to the cache or gives another value
CacheKeysSet == {k \in DOMAIN stateCache' : k \notin DOMAIN stateCache \/ stateCache'[k] # stateCache[k]}

\* the keys the step removes from the cache
CacheKeysRemoved == DOMAIN stateCache \ DOMAIN stateCache'

\* C27: StepBackward and StepN, forward or backward, leave the state cache
\* as it is; a step that adds an entry or gives one another value is a
\* StepForward, and the entry is the one of the stepped operation's
\* kind/namespace/name key and holds that operation's decoded payload; a
\* step that removes an entry is a Reset, and it removes them all.
C27_CacheFrame ==
    [][/\ elast'.fn \in {"StepBackward", "StepN"} => stateCache' = stateCache
       /\ CacheKeysSet # {}
          => /\ elast'.fn = "StepForward"
             /\ elast'.op # << >>
             /\ CacheKeysSet = {CacheKey(elast'.op[1])}
             /\ stateCache'[CacheKey(elast'.op[1])] = Unmarshal(elast'.op[1].ResourceData).obj
       /\ CacheKeysRemoved # {}
          => /\ elast'.fn = "Reset"
             /\ stateCache' = << >>]_vars

\* C27's case: StepN has stepped back to the start of a log and the cache
\* holds what the steps forward put in it
C27_Witness ==
    /\ elast.fn = "StepN"
    /\ elast.err = ""
    /\ elast.n < 0
    /\ currentIndex = 0
    /\ Cardinality(DOMAIN stateCache) = 2

\* the errors of StepForward that come from updateCache
CacheErrors ==
    {"cache update failed: cache size limit reached",
     "cache update failed: failed to unmarshal resource"}

\* C36: a StepForward that returns an error of the cache update (the cache
\* is full, or the payload cannot be decoded) has moved currentIndex forward
\* by one and returns the operation it stepped over with the error; a
\* StepForward that returns an error and leaves currentIndex where it was
\* is the one at the end of the log.
C36_CacheErrorStillAdvances ==
    [][elast'.fn = "StepForward"
       => /\ elast'.err \in CacheErrors
             => /\ currentIndex < maxIndex
                /\ currentIndex' = currentIndex + 1
                /\ elast'.op = <<OpsAt(operations, currentIndex)>>
          /\ (elast'.err # "" /\ currentIndex' = currentIndex)
             => /\ elast'.err = "at end of replay"
                /\ currentIndex = maxIndex
          /\ elast'.err \in CacheErrors \cup {"", "at end of replay"}]_vars

\* C36's case: StepForward has found the cache full, inside the log
C36_Witness ==
    /\ elast.fn = "StepForward"
    /\ elast.err = "cache update failed: cache size limit reached"
    /\ Cardinality(DOMAIN stateCache) = maxCacheSize
    /\ currentIndex > 1
    /\ currentIndex < maxIndex
    /\ elast.op = <<OpsAt(operations, currentIndex - 1)>>



(***************************************************************************)
(* analysis: DetectLoops.  Slices are indexed from 0 as in the code:        *)
(* ops[i] of the code is ops[i + 1] here.                                   *)
(***************************************************************************)
maxAnalysisOperations == 100000
loopDetectionWindow == 100
\* maxPatterns of DetectLoops and maxMatches of checkPatternAt
maxLoopPatterns == 100
maxMatches == 10

\* a compareWindows that compares the resource kinds only
compareWindowsByKind(ops, idx1, idx2, size) ==
    IF idx1 + size > Len(ops) \/ idx2 + size > Len(ops) THEN FALSE
    ELSE \A i \in 0..(size - 1) :
            ops[idx1 + i + 1].ResourceKind = ops[idx2 + i + 1].ResourceKind

\* compareWindows: the windows of size operations at idx1 and at idx2 agree
\* on (OperationType, ResourceKind, Namespace, Name)
compareWindows(ops, idx1, idx2, size) ==
    IF idx1 + size > Len(ops) \/ idx2 + size > Len(ops) THEN FALSE
    ELSE \A i \in 0..(size - 1) :
            /\ ops[idx1 + i + 1].OperationType = ops[idx2 + i + 1].OperationType
            /\ ops[idx1 + i + 1].ResourceKind = ops[idx2 + i + 1].ResourceKind
            /\ ops[idx1 + i + 1].Namespace = ops[idx2 + i + 1].Namespace
            /\ ops[idx1 + i + 1].Name = ops[idx2 + i + 1].Name

\* the loop of checkPatternAt: <<matchCount, currentIdx>> when it exits
RECURSIVE matchLoop(_, _, _, _, _)
matchLoop(ops, windowSize, maxIdx, matchCount, currentIdx) ==
    IF /\ matchCount < maxMatches
       /\ currentIdx + windowSize * 2 <= maxIdx
       /\ compareWindows(ops, currentIdx, currentIdx + windowSize, windowSize)
    THEN matchLoop(ops, windowSize, maxIdx, matchCount + 1, currentIdx + windowSize)
    ELSE <<matchCount, currentIdx>>

\* checkPatternAt: << >> is nil, <<p>> the pattern found at startIdx
checkPatternAt(ops, startIdx, windowSize, maxIdx) ==
    IF startIdx + windowSize * 2 > maxIdx THEN << >>
    ELSE LET exit == matchLoop(ops, windowSize, maxIdx, 0, startIdx)
         IN  IF exit[1] < 2 THEN << >>
             ELSE <<[StartIndex |-> startIdx,
                     EndIndex |-> exit[2] - 1,
                     RepeatCount |-> exit[1],
                     OperationKind |-> ops[startIdx + 1].ResourceKind,
                     Description |-> "Repeated " \o ops[startIdx + 1].ResourceKind
                                     \o " operations " \o ToString(exit[1])
                                     \o " times"]>>

\* the condition of the loop of DetectLoops at at == <<i, patterns>>
detectLoopGoesOn(ops, windowSize, at) ==
    at[1] < Len(ops) - windowSize /\ Len(at[2]) < maxLoopPatterns

\* one turn of the loop of DetectLoops; once the condition of the loop is
\* false, at stays as it is
detectLoopTurn(ops, windowSize, at) ==
    IF detectLoopGoesOn(ops, windowSize, at)
    THEN LET pattern == checkPatternAt(ops, at[1], windowSize, Len(ops))
         IN  IF pattern # << >>
             THEN <<pattern[1].EndIndex + 1, Append(at[2], pattern[1])>>
             ELSE <<at[1] + 1, at[2]>>
    ELSE at

\* n turns of the loop: the first half of them is evaluated before the
\* second is entered, and the second is left out when the loop has ended
RECURSIVE detectLoopTurns(_, _, _, _)
detectLoopTurns(ops, windowSize, at, n) ==
    IF n <= 0 THEN at
    ELSE IF n = 1 THEN detectLoopTurn(ops, windowSize, at)
    ELSE LET half == n \div 2
             mid == detectLoopTurns(ops, windowSize, at, half)
         IN  IF detectLoopGoesOn(ops, windowSize, mid)
             THEN detectLoopTurns(ops, windowSize, mid, n - half)
             ELSE mid

\* the loop of DetectLoops from index i on: i grows in every turn and the
\* loop goes on only while i < len(ops) - windowSize, so that it has ended
\* after len(ops) turns
detectLoop(ops, windowSize, i, patterns) ==
    detectLoopTurns(ops, windowSize, <<i, patterns>>, Len(ops))[2]

\* the range check of DetectLoops with the window 1 let through
DetectLoopsFromOne(ops, windowSize) ==
    IF ~AssertInRange(Len(ops), 0, maxAnalysisOperations)
        THEN [patterns |-> << >>, err |-> "range error: operation count"]
    ELSE IF ~AssertInRange(windowSize, 1, loopDetectionWindow)
        THEN [patterns |-> << >>, err |-> "range error: window size"]
    ELSE [patterns |-> detectLoop(ops, windowSize, 0, << >>), err |-> ""]

\* DetectLoops: the patterns and the error returned
DetectLoops(ops, windowSize) ==
    IF ~AssertInRange(Len(ops), 0, maxAnalysisOperations)
        THEN [patterns |-> << >>, err |-> "range error: operation count"]
    ELSE IF ~AssertInRange(windowSize, 2, loopDetectionWindow)
        THEN [patterns |-> << >>, err |-> "range error: window size"]
    ELSE [patterns |-> detectLoop(ops, windowSize, 0, << >>), err |-> ""]

\* a call of DetectLoops
DetectLoopsCall ==
    /\ aIn.fn = "DetectLoops"
    /\ aOut = NotCalled
    /\ aOut' = [called |-> TRUE, res |-> DetectLoops(aIn.ops, aIn.windowSize)]
    /\ UNCHANGED <<aIn, enum, storeVars, recorderVars, engineVars>>

(***************************************************************************)
(* Inputs of DetectLoops.                                                   *)
(***************************************************************************)
\* the longest input of DetectLoops
MaxLoopOps == 30

\* An operation of type opType on Pod default/name
Call(opType, name) == [Op("s1", 1) EXCEPT !.OperationType = opType, !.Name = name]

\* the slice of n operations that repeats cycle
Repeat(cycle, n) == [i \in 1..n |-> cycle[((i - 1) % Len(cycle)) + 1]]

LoopCycles == {<<Call("GET", "a")>>,
               <<Call("GET", "a"), Call("GET", "b")>>,
               <<Call("GET", "a"), Call("UPDATE", "a"), Call("GET", "b")>>}

WindowInputs == {1, 2, 3, 10, loopDetectionWindow + 1}

\* the greatest number of runs of twenty operations in an input
MaxLoopRuns == 101

\* n runs of twenty operations GET a and four more: with window 2, every
\* run is a pattern of ten repeats
Runs(n) == Repeat(<<Call("GET", "a")>>, 20 * n + 4)

\* n blocks of six operations: GET a, GET b three times over in the blocks
\* 0, 2, ..., and GET c, GET d three times over in the blocks 1, 3, ...
Blocks(n) ==
    [i \in 1..(6 * n) |->
        Call("GET", IF ((i - 1) \div 6) % 2 = 0
                    THEN (IF (i - 1) % 2 = 0 THEN "a" ELSE "b")
                    ELSE (IF (i - 1) % 2 = 0 THEN "c" ELSE "d"))]

DetectLoopsInputs ==
    {[fn |-> "DetectLoops", ops |-> Repeat(cycle, n), windowSize |-> w] :
        cycle \in LoopCycles, n \in 0..MaxLoopOps, w \in WindowInputs}
    \cup {[fn |-> "DetectLoops", ops |-> Blocks(n), windowSize |-> 2] : n \in 2..3}
    \cup {[fn |-> "DetectLoops", ops |-> Runs(MaxLoopRuns), windowSize |-> 2]}


(***************************************************************************)
(* DetectLoops on each of its inputs: SpecLoops.                            *)
(***************************************************************************)
\* the store, the recorders and the engine take no part in an analysis
InitAnalysis(inputs) ==
    /\ NewDatabase(defaultMaxOperations)
    /\ IdleRecorder
    /\ IdleEngine
    /\ aIn \in inputs
    /\ aOut = NotCalled
    /\ enum = NoEnum

InitLoops == InitAnalysis(DetectLoopsInputs)

NextLoops == DetectLoopsCall

SpecLoops == InitLoops /\ [][NextLoops]_vars

\* all operations of ops have the same (OperationType, ResourceKind,
\* Namespace, Name)
SameCall(ops) ==
    \A i, j \in 1..Len(ops) :
        /\ ops[i].OperationType = ops[j].OperationType
        /\ ops[i].ResourceKind = ops[j].ResourceKind
        /\ ops[i].Namespace = ops[j].Namespace
        /\ ops[i].Name = ops[j].Name

\* C12: for 30 operations with the same (OperationType, ResourceKind,
\* Namespace, Name) and window 10, DetectLoops returns exactly one pattern,
\* with StartIndex 0, EndIndex 29 and RepeatCount 2.
C12_ThirtyEqualOperations ==
    (/\ aIn.fn = "DetectLoops"
     /\ aOut # NotCalled
     /\ Len(aIn.ops) = 30
     /\ SameCall(aIn.ops)
     /\ aIn.windowSize = 10)
    => /\ aOut.res.err = ""
       /\ Len(aOut.res.patterns) = 1
       /\ aOut.res.patterns[1].StartIndex = 0
       /\ aOut.res.patterns[1].EndIndex = 29
       /\ aOut.res.patterns[1].RepeatCount = 2

\* operations a and b have the same (OperationType, ResourceKind, Namespace,
\* Name)
SameCallAs(a, b) ==
    /\ a.OperationType = b.OperationType
    /\ a.ResourceKind = b.ResourceKind
    /\ a.Namespace = b.Namespace
    /\ a.Name = b.Name

LoopsDetected == aIn.fn = "DetectLoops" /\ aOut.called /\ aOut.res.err = ""

\* C24: every pattern DetectLoops(ops, w) returns has 2 <= RepeatCount <= 10
\* and EndIndex = StartIndex + RepeatCount * w - 1, and the window at
\* StartIndex is equal, on (OperationType, ResourceKind, Namespace, Name), to
\* each of the RepeatCount windows after it; the patterns come by increasing
\* StartIndex, each StartIndex greater than the EndIndex of the pattern
\* before, and there are at most 100 of them.
C24_PatternsWellFormed ==
    LoopsDetected =>
        LET ops == aIn.ops
            w == aIn.windowSize
            patterns == aOut.res.patterns
        IN  /\ Len(patterns) <= 100
            /\ \A p \in 1..Len(patterns) :
                  /\ 2 <= patterns[p].RepeatCount
                  /\ patterns[p].RepeatCount <= 10
                  /\ patterns[p].EndIndex =
                        patterns[p].StartIndex + patterns[p].RepeatCount * w - 1
                  /\ patterns[p].StartIndex >= 0
                  /\ patterns[p].StartIndex + (patterns[p].RepeatCount + 1) * w <= Len(ops)
                  /\ \A r \in 1..patterns[p].RepeatCount, k \in 0..(w - 1) :
                        SameCallAs(ops[patterns[p].StartIndex + k + 1],
                                   ops[patterns[p].StartIndex + r * w + k + 1])
                  /\ p > 1 => patterns[p].StartIndex > patterns[p - 1].EndIndex

\* C24's case: 100 patterns of 10 repeats are returned of operations that
\* have one more pattern after the last of them
C24_Witness ==
    /\ LoopsDetected
    /\ Len(aOut.res.patterns) = 100
    /\ aOut.res.patterns[100].RepeatCount = 10
    /\ aOut.res.patterns[2].StartIndex > aOut.res.patterns[1].EndIndex
    /\ checkPatternAt(aIn.ops, aOut.res.patterns[100].EndIndex + 1,
                      aIn.windowSize, Len(aIn.ops)) # << >>



(***************************************************************************)
(* analysis: AnalyzeErrors.  A Go map is a function on its keys; a nil      *)
(* pointer is << >> and a pointer to v is <<v>>.                            *)
(***************************************************************************)
maxErrorTypes == 20

\* m[k] of a Go map of counters: 0 for a key that is not there
Count(m, k) == IF k \in DOMAIN m THEN m[k] ELSE 0

\* m[k] = v
Put(m, k, v) == (k :> v) @@ m

\* the body of the loop of AnalyzeErrors for op
countError(summary, op) ==
    IF StrLen(op.Error) > 0
    THEN [TotalErrors |-> summary.TotalErrors + 1,
          FirstError |-> IF summary.FirstError = << >> THEN <<op>>
                         ELSE summary.FirstError,
          LastError |-> <<op>>,
          ErrorsByType |->
              IF Cardinality(DOMAIN summary.ErrorsByType) < maxErrorTypes
              THEN Put(summary.ErrorsByType, op.OperationType,
                       Count(summary.ErrorsByType, op.OperationType) + 1)
              ELSE summary.ErrorsByType]
    ELSE summary

\* the loop of AnalyzeErrors over ops[lo..hi], entered with summary (the
\* range is halved, and the first half evaluated before the second is
\* entered, to keep the evaluation shallow)
RECURSIVE analyzeErrorsRange(_, _, _, _)
analyzeErrorsRange(summary, ops, lo, hi) ==
    IF lo > hi THEN summary
    ELSE IF lo = hi THEN countError(summary, ops[lo])
    ELSE LET mid == (lo + hi) \div 2
             half == analyzeErrorsRange(summary, ops, lo, mid)
         IN  IF half.TotalErrors = 0 THEN analyzeErrorsRange(summary, ops, mid + 1, hi)
             ELSE analyzeErrorsRange(half, ops, mid + 1, hi)

\* the loop of AnalyzeErrors over the first n operations
analyzeErrorsLoop(ops, n) ==
    analyzeErrorsRange([TotalErrors |-> 0, FirstError |-> << >>, LastError |-> << >>,
                        ErrorsByType |-> << >>], ops, 1, n)

\* AnalyzeErrors: the summary and the error returned
AnalyzeErrors(ops) ==
    IF ~AssertInRange(Len(ops), 0, maxAnalysisOperations)
        THEN [summary |-> << >>, err |-> "range error: operation count"]
    ELSE [summary |-> <<analyzeErrorsLoop(ops, Len(ops))>>, err |-> ""]

\* a call of AnalyzeErrors
AnalyzeErrorsCall ==
    /\ aIn.fn = "AnalyzeErrors"
    /\ aOut = NotCalled
    /\ aOut' = [called |-> TRUE, res |-> AnalyzeErrors(aIn.ops)]
    /\ UNCHANGED <<aIn, enum, storeVars, recorderVars, engineVars>>

(***************************************************************************)
(* AnalyzeErrors on each of its inputs: SpecErrors.                         *)
(***************************************************************************)
\* the most operation types an input of AnalyzeErrors starts with
MaxTypes == 21

\* OperationType values: the seven the package names, then others
OperationTypes == <<"GET", "LIST", "CREATE", "UPDATE", "PATCH", "DELETE", "WATCH">>
TypeName(i) == IF i <= Len(OperationTypes) THEN OperationTypes[i]
               ELSE "TYPE" \o ToString(i)

\* An operation of type opType that failed with errMsg ("" when it did not)
Failed(opType, errMsg) == [Op("s1", 1) EXCEPT !.OperationType = opType, !.Error = errMsg]

\* k failed operations of k different types
FailedTypes(k) == [i \in 1..k |-> Failed(TypeName(i), "not found")]

ErrorTails ==
    {<< >>,
     <<Failed("GET", "conflict")>>,
     <<Failed("GET", "")>>,
     <<Failed("GET", ""), Failed("LIST", "timeout"), Failed("GET", "conflict")>>,
     <<Failed("TYPE99", "timeout")>>,
     <<Failed("TYPE99", "timeout"), Failed("TYPE99", "timeout"), Failed("WATCH", "eof")>>}

AnalyzeErrorsInputs ==
    {[fn |-> "AnalyzeErrors", ops |-> FailedTypes(k) \o tail] :
        k \in 0..MaxTypes, tail \in ErrorTails}

InitErrors == InitAnalysis(AnalyzeErrorsInputs)

NextErrors == AnalyzeErrorsCall

SpecErrors == InitErrors /\ [][NextErrors]_vars

\* the number of operations of ops that failed, and of those of type t
FailedRows(ops) == {i \in 1..Len(ops) : StrLen(ops[i].Error) > 0}
FailedRowsOfType(ops, t) == {i \in FailedRows(ops) : ops[i].OperationType = t}

\* C13: AnalyzeErrors returns TotalErrors equal to the number of failed
\* operations and an ErrorsByType of at most 20 keys in which the count of
\* every key is the number of failed operations of that type in the whole
\* input.
C13_ErrorsByTypeCounts ==
    (aIn.fn = "AnalyzeErrors" /\ aOut # NotCalled)
    => /\ aOut.res.err = ""
       /\ aOut.res.summary[1].TotalErrors = Cardinality(FailedRows(aIn.ops))
       /\ Cardinality(DOMAIN aOut.res.summary[1].ErrorsByType) <= maxErrorTypes
       /\ \A t \in DOMAIN aOut.res.summary[1].ErrorsByType :
             aOut.res.summary[1].ErrorsByType[t]
                 = Cardinality(FailedRowsOfType(aIn.ops, t))


(***************************************************************************)
(* analysis: AnalyzeResourceAccess.                                         *)
(***************************************************************************)
maxAccessPatterns == 1000

isReadOperation(opType) == opType = "GET" \/ opType = "LIST"

isWriteOperation(opType) ==
    opType = "CREATE" \/ opType = "UPDATE" \/ opType = "PATCH" \/ opType = "DELETE"

\* fmt.Sprintf("%s/%s/%s", op.ResourceKind, op.Namespace, op.Name)
ResourceKey(op) == op.ResourceKind \o "/" \o op.Namespace \o "/" \o op.Name

\* the body of the loop of AnalyzeResourceAccess after its break
countAccess(patterns, op) ==
    LET key == ResourceKey(op)
        pattern == IF key \in DOMAIN patterns THEN patterns[key]
                   ELSE [ResourceKey |-> key, ReadCount |-> 0, WriteCount |-> 0,
                         FirstAccess |-> op.Timestamp, LastAccess |-> 0]
    IN  Put(patterns, key,
            [pattern EXCEPT
                !.ReadCount = IF isReadOperation(op.OperationType) THEN @ + 1 ELSE @,
                !.WriteCount = IF ~isReadOperation(op.OperationType)
                                  /\ isWriteOperation(op.OperationType)
                               THEN @ + 1 ELSE @,
                !.LastAccess = op.Timestamp])

\* the loop of AnalyzeResourceAccess over ops[lo..hi], entered with patterns
\* (the range is halved, and the first half evaluated before the second is
\* entered, to keep the evaluation shallow): it is left (break) at the first
\* operation that finds maxAccessPatterns keys
RECURSIVE analyzeAccessLoop(_, _, _, _)
analyzeAccessLoop(patterns, ops, lo, hi) ==
    IF lo > hi THEN patterns
    ELSE IF lo = hi
        THEN IF Cardinality(DOMAIN patterns) >= maxAccessPatterns THEN patterns
             ELSE countAccess(patterns, ops[lo])
    ELSE LET mid == (lo + hi) \div 2
             half == analyzeAccessLoop(patterns, ops, lo, mid)
         IN  IF half = << >> THEN analyzeAccessLoop(<< >>, ops, mid + 1, hi)
             ELSE analyzeAccessLoop(half, ops, mid + 1, hi)

\* AnalyzeResourceAccess: the patterns and the error returned
AnalyzeResourceAccess(ops) ==
    IF ~AssertInRange(Len(ops), 0, maxAnalysisOperations)
        THEN [patterns |-> << >>, err |-> "range error: operation count"]
    ELSE [patterns |-> analyzeAccessLoop(<< >>, ops, 1, Len(ops)), err |-> ""]

\* a call of AnalyzeResourceAccess
AnalyzeResourceAccessCall ==
    /\ aIn.fn = "AnalyzeResourceAccess"
    /\ aOut = NotCalled
    /\ aOut' = [called |-> TRUE, res |-> AnalyzeResourceAccess(aIn.ops)]
    /\ UNCHANGED <<aIn, enum, storeVars, recorderVars, engineVars>>

(***************************************************************************)
(* AnalyzeResourceAccess on each of its inputs: SpecAccess.                 *)
(***************************************************************************)
\* the most objects an input of AnalyzeResourceAccess starts with
MaxObjects == 1000

\* An operation of type opType on Pod default/name at time t
Access(opType, name, t) ==
    [Op("s1", 1) EXCEPT !.OperationType = opType, !.Name = name, !.Timestamp = t]

\* k operations on k different objects, the i-th at time i seconds
Objects(k) ==
    [i \in 1..k |-> Access(TypeName(((i - 1) % Len(OperationTypes)) + 1),
                           "pod-" \o ToString(i), FromUnix(i))]

AccessTails ==
    {<< >>,
     <<Access("GET", "pod-1", FromUnix(2000))>>,
     <<Access("UPDATE", "pod-2", FromUnix(2000)), Access("LIST", "pod-2", FromUnix(2001))>>,
     <<Access("WATCH", "pod-1", FromUnix(2000)), Access("DELETE", "pod-1", FromUnix(2002))>>,
     <<Access("PATCH", "other", FromUnix(2000)), Access("GET", "other", FromUnix(2003))>>}

ObjectCounts == 0..9 \cup {MaxObjects - 1, MaxObjects}

AnalyzeResourceAccessInputs ==
    {[fn |-> "AnalyzeResourceAccess", ops |-> Objects(k) \o tail] :
        k \in ObjectCounts, tail \in AccessTails}

InitAccess == InitAnalysis(AnalyzeResourceAccessInputs)

NextAccess == AnalyzeResourceAccessCall

SpecAccess == InitAccess /\ [][NextAccess]_vars

\* the operations of ops on the object of key
RowsOfKey(ops, key) == {i \in 1..Len(ops) : ResourceKey(ops[i]) = key}

\* the least and the greatest element of a set of numbers that is not empty
Least(S) == CHOOSE x \in S : \A y \in S : x <= y
Greatest(S) == CHOOSE x \in S : \A y \in S : x >= y

\* C14: AnalyzeResourceAccess returns at most 1000 keys, and for every key
\* it returns ReadCount is the number of GET and LIST operations on the key
\* in the whole input, WriteCount the number of CREATE, UPDATE, PATCH and
\* DELETE operations on it, and FirstAccess and LastAccess are the
\* timestamps of the first and the last operation on it.
C14_AccessCounts ==
    (aIn.fn = "AnalyzeResourceAccess" /\ aOut # NotCalled)
    => /\ aOut.res.err = ""
       /\ Cardinality(DOMAIN aOut.res.patterns) <= maxAccessPatterns
       /\ \A key \in DOMAIN aOut.res.patterns :
             LET rows == RowsOfKey(aIn.ops, key)
                 p == aOut.res.patterns[key]
             IN  /\ p.ReadCount = Cardinality({i \in rows :
                        aIn.ops[i].OperationType \in {"GET", "LIST"}})
                 /\ p.WriteCount = Cardinality({i \in rows :
                        aIn.ops[i].OperationType \in {"CREATE", "UPDATE", "PATCH", "DELETE"}})
                 /\ p.FirstAccess = aIn.ops[Least(rows)].Timestamp
                 /\ p.LastAccess = aIn.ops[Greatest(rows)].Timestamp


(***************************************************************************)
(* analysis: BuildCausalityChains.                                          *)
(***************************************************************************)
maxCausalityNodes == 20000
maxCausalityEdges == 50000
defaultMaxChains == 20
defaultMaxDepth == 6
maxCausalityChains == 100

\* The bytes of the characters that node ids are made of
CharCode ==
    [c \in {"-", "0", "1", "2", "3", "4", "5", "6", "7", "8", "9", ":",
            "a", "b", "c", "n", "o", "p", "s", "z"} |->
        CASE c = "-" -> 45 [] c = "0" -> 48 [] c = "1" -> 49 [] c = "2" -> 50
          [] c = "3" -> 51 [] c = "4" -> 52 [] c = "5" -> 53 [] c = "6" -> 54
          [] c = "7" -> 55 [] c = "8" -> 56 [] c = "9" -> 57 [] c = ":" -> 58
          [] c = "a" -> 97 [] c = "b" -> 98 [] c = "c" -> 99 [] c = "n" -> 110
          [] c = "o" -> 111 [] c = "p" -> 112 [] c = "s" -> 115 [] c = "z" -> 122]

\* a < b for Go strings: the order of their bytes, a before b when, at the
\* first place where they differ, a has ended or has the lesser byte
StringLess(a, b) ==
    \E k \in 1..Len(b) :
        /\ Len(a) >= k - 1
        /\ SubSeq(a, 1, k - 1) = SubSeq(b, 1, k - 1)
        /\ \/ Len(a) = k - 1
           \/ CharCode[SubSeq(a, k, k)] < CharCode[SubSeq(b, k, k)]

\* sort.Strings, and sort.Slice by <, of a slice of strings: each string
\* stands after the strings that are less and the equal ones before it
SortStrings(xs) ==
    LET n == Len(xs)
        before(j, i) == StringLess(xs[j], xs[i]) \/ (xs[j] = xs[i] /\ j < i)
    IN  [r \in 1..n |->
            xs[CHOOSE i \in 1..n : Cardinality({j \in 1..n : before(j, i)}) = r - 1]]

\* normalizeChainLimits: <<maxDepth, maxChains>>
normalizeChainLimits(maxDepth, maxChains) ==
    LET chains == IF maxChains <= 0 THEN defaultMaxChains ELSE maxChains
    IN  <<IF maxDepth <= 0 THEN defaultMaxDepth ELSE maxDepth,
          IF chains > maxCausalityChains THEN maxCausalityChains ELSE chains>>

\* indexNodes: id -> node (of several nodes with one id the last one)
indexNodes(nodes) ==
    LET n == Min(Len(nodes), maxCausalityNodes)
    IN  [id \in {nodes[i].ID : i \in 1..n} |->
            nodes[CHOOSE i \in 1..n :
                     nodes[i].ID = id /\ \A j \in 1..n : nodes[j].ID = id => j <= i]]

\* the edges buildAdjacency reads
AdjEdges(edges) == SubSeq(edges, 1, Min(Len(edges), maxCausalityEdges))

\* buildAdjacency: adj, from -> the sorted slice of the To of its edges
buildAdjacencyAdj(edges) ==
    [from \in {AdjEdges(edges)[i].From : i \in 1..Len(AdjEdges(edges))} |->
        LET out == SelectSeq(AdjEdges(edges), LAMBDA e : e.From = from)
        IN  SortStrings([i \in 1..Len(out) |-> out[i].To])]

\* buildAdjacency: fanOut, from -> the number of its op_to_span edges
buildAdjacencyFanOut(edges) ==
    LET counted == SelectSeq(AdjEdges(edges), LAMBDA e : e.Type = "op_to_span")
    IN  [from \in {counted[i].From : i \in 1..Len(counted)} |->
            Len(SelectSeq(counted, LAMBDA e : e.From = from))]

\* sort.Strings of the ids gathered from a map, whatever the order in which
\* the map was ranged over: each id stands after the ids that are less
SortedStrings(S) ==
    [i \in 1..Cardinality(S) |->
        CHOOSE x \in S : Cardinality({y \in S : StringLess(y, x)}) = i - 1]

\* collectRootNodes: the sorted ids of the operation nodes with fanOut > 0
collectRootNodes(adj, fanOut, nodeByID) ==
    LET rootSet == {id \in DOMAIN adj : Count(fanOut, id) > 0}
        roots == {id \in rootSet : id \in DOMAIN nodeByID /\ nodeByID[id].Type = "op"}
    IN  SortedStrings(roots)

\* a pathContains that looks at the last node of the path only
pathContainsLast(path, nodeID) == Len(path) > 0 /\ path[Len(path)] = nodeID

\* pathContains
pathContains(path, nodeID) == \E i \in 1..Len(path) : path[i] = nodeID


\* a loop over nextNodes that pushes the path as it is, not extended
RECURSIVE pushNextSame(_, _, _, _)
pushNextSame(stack, path, nextNodes, j) ==
    IF j > Min(Len(nextNodes), maxAnalysisOperations) THEN stack
    ELSE pushNextSame(IF pathContains(path, nextNodes[j]) THEN stack
                      ELSE Append(stack, path),
                      path, nextNodes, j + 1)

\* generateChains, the loop over nextNodes: the path extended by each
\* successor that is not on it is pushed (len(chains) does not change here)
RECURSIVE pushNext(_, _, _, _)
pushNext(stack, path, nextNodes, j) ==
    IF j > Min(Len(nextNodes), maxAnalysisOperations) THEN stack
    ELSE pushNext(IF pathContains(path, nextNodes[j]) THEN stack
                  ELSE Append(stack, Append(path, nextNodes[j])),
                  path, nextNodes, j + 1)

\* sortChains' less: longer first, and of equal lengths the greater FanOut
chainLess(a, b) ==
    IF a.Length = b.Length THEN a.FanOut > b.FanOut ELSE a.Length > b.Length

\* a stable sort by chainLess: each chain stands after the chains that are
\* less and after the ones before it that compare equal
StableSortChains(chains, n) ==
    LET before(j, i) ==
            \/ chainLess(chains[j], chains[i])
            \/ ~chainLess(chains[i], chains[j]) /\ j < i
    IN  [r \in 1..n |->
            chains[CHOOSE i \in 1..n : Cardinality({j \in 1..n : before(j, i)}) = r - 1]]

Reverse(xs) == [i \in 1..Len(xs) |-> xs[Len(xs) + 1 - i]]

\* sortChains: sort.Slice is not stable, so chains that compare equal come
\* out in an order the code does not fix; two such orders are kept, the
\* one of the input and its reverse
sortChains(chains) ==
    {StableSortChains(chains, Len(chains)),
     StableSortChains(Reverse(chains), Len(chains))}

\* what BuildCausalityChains computes before generateChains
ChainLimits == normalizeChainLimits(aIn.maxDepth, aIn.maxChains)
ChainNodeByID == indexNodes(aIn.graph[1].Nodes)
ChainAdj == buildAdjacencyAdj(aIn.graph[1].Edges)
ChainFanOut == buildAdjacencyFanOut(aIn.graph[1].Edges)
ChainRoots == collectRootNodes(ChainAdj, ChainFanOut, ChainNodeByID)

NilChains == [isNil |-> TRUE, chains |-> << >>]

\* BuildCausalityChains up to the call of generateChains: the limits are
\* normalised and roots, adj and fanOut are computed once, here
BuildCausalityChainsCall ==
    /\ aIn.fn = "BuildCausalityChains"
    /\ aOut = NotCalled
    /\ enum = NoEnum
    /\ IF aIn.graph = << >> \/ ~AssertInRange(aIn.maxDepth, 0, maxAnalysisOperations)
       THEN /\ aOut' = [called |-> TRUE, res |-> NilChains]
            /\ enum' = enum
       ELSE /\ aOut' = aOut
            /\ enum' = [pc |-> "roots", i |-> 0, stack |-> << >>, chains |-> << >>,
                       roots |-> ChainRoots, adj |-> ChainAdj,
                       fanOut |-> ChainFanOut]
    /\ UNCHANGED <<aIn, storeVars, recorderVars, engineVars>>

\* generateChains, the loop over the roots
generateChainsRoot ==
    /\ enum.pc = "roots"
    /\ IF /\ enum.i < Min(Len(enum.roots), maxAnalysisOperations)
          /\ Len(enum.chains) < ChainLimits[2]
       THEN enum' = [enum EXCEPT !.pc = "walk", !.stack = <<<<enum.roots[enum.i + 1]>>>>]
       ELSE enum' = [enum EXCEPT !.pc = "sort"]
    /\ UNCHANGED <<aIn, aOut, storeVars, recorderVars, engineVars>>

\* generateChains, one turn of the loop over the stack
generateChainsWalk ==
    /\ enum.pc = "walk"
    /\ IF Len(enum.stack) > 0 /\ Len(enum.chains) < ChainLimits[2]
       THEN LET path == enum.stack[Len(enum.stack)]
                rest == SubSeq(enum.stack, 1, Len(enum.stack) - 1)
                lastID == path[Len(path)]
                rootID == enum.roots[enum.i + 1]
                nextNodes == IF lastID \in DOMAIN enum.adj THEN enum.adj[lastID] ELSE << >>
            IN  IF Len(path) >= ChainLimits[1] \/ Len(nextNodes) = 0
                THEN enum' = [enum EXCEPT
                        !.stack = rest,
                        !.chains = Append(@, [NodeIDs |-> path,
                                              Length |-> Len(path),
                                              FanOut |-> Count(enum.fanOut, rootID)])]
                ELSE enum' = [enum EXCEPT !.stack = pushNext(rest, path, nextNodes, 1)]
       ELSE enum' = [enum EXCEPT !.pc = "roots", !.i = @ + 1]
    /\ UNCHANGED <<aIn, aOut, storeVars, recorderVars, engineVars>>

\* sortChains and the return of BuildCausalityChains
BuildCausalityChainsReturn ==
    /\ enum.pc = "sort"
    /\ \E sorted \in sortChains(enum.chains) :
          aOut' = [called |-> TRUE, res |-> [isNil |-> FALSE, chains |-> sorted]]
    /\ enum' = [enum EXCEPT !.pc = "done"]
    /\ UNCHANGED <<aIn, storeVars, recorderVars, engineVars>>


\* The graphs chains are built from
MaxWidth == 5
MaxPathNodes == 52

Node(id, type) == [ID |-> id, Type |-> type]
Edge(from, to, type) == [From |-> from, To |-> to, Type |-> type]

\* op:1 -> span:a -> op:2 -> span:b, and op:10 -> span:a
PlainGraph ==
    [Nodes |-> <<Node("op:1", "op"), Node("span:a", "span"), Node("op:2", "op"),
                 Node("span:b", "span"), Node("op:10", "op")>>,
     Edges |-> <<Edge("op:2", "span:b", "op_to_span"),
                 Edge("op:1", "span:a", "op_to_span"),
                 Edge("span:a", "op:2", "span_to_op"),
                 Edge("op:10", "span:a", "op_to_span")>>]

\* a cycle op:1 -> span:a -> op:1, and one op:2 -> span:b -> op:3 -> span:a
\* that runs into it
CyclicGraph ==
    [Nodes |-> <<Node("op:1", "op"), Node("span:a", "span"), Node("op:2", "op"),
                 Node("span:b", "span"), Node("op:3", "op")>>,
     Edges |-> <<Edge("op:1", "span:a", "op_to_span"),
                 Edge("span:a", "op:1", "span_to_op"),
                 Edge("op:2", "span:b", "op_to_span"),
                 Edge("span:b", "op:3", "span_to_op"),
                 Edge("op:3", "span:a", "op_to_span")>>]

\* edges from and to nodes that are not in Nodes, and an edge given twice
MissingNodesGraph ==
    [Nodes |-> <<Node("op:1", "op"), Node("span:a", "span")>>,
     Edges |-> <<Edge("op:9", "span:a", "op_to_span"),
                 Edge("op:1", "span:z", "op_to_span"),
                 Edge("op:1", "span:a", "op_to_span"),
                 Edge("op:1", "span:a", "op_to_span"),
                 Edge("span:a", "op:9", "span_to_op")>>]

OpID(i) == "op:" \o ToString(i)
SpanID(i) == "span:" \o ToString(i)

\* op:1 -> w spans -> w operations -> w spans, every span of the first
\* layer leading to every operation: w * w * w paths from op:1
LayeredGraph(w) ==
    [Nodes |-> <<Node(OpID(1), "op")>>
               \o [i \in 1..w |-> Node(SpanID(i), "span")]
               \o [i \in 1..w |-> Node(OpID(10 + i), "op")]
               \o [i \in 1..w |-> Node(SpanID(10 + i), "span")],
     Edges |-> [i \in 1..w |-> Edge(OpID(1), SpanID(i), "op_to_span")]
               \o [k \in 1..(w * w) |->
                     Edge(SpanID(((k - 1) \div w) + 1), OpID(10 + ((k - 1) % w) + 1),
                          "span_to_op")]
               \o [k \in 1..(w * w) |->
                     Edge(OpID(10 + ((k - 1) \div w) + 1), SpanID(10 + ((k - 1) % w) + 1),
                          "op_to_span")]]

\* op:1 -> span:1 -> op:2 -> span:2 -> ... of n nodes
PathNodeID(k) == IF k % 2 = 1 THEN OpID((k + 1) \div 2) ELSE SpanID(k \div 2)

PathGraph(n) ==
    [Nodes |-> [k \in 1..n |-> Node(PathNodeID(k), IF k % 2 = 1 THEN "op" ELSE "span")],
     Edges |-> [k \in 1..(n - 1) |->
                  Edge(PathNodeID(k), PathNodeID(k + 1),
                       IF k % 2 = 1 THEN "op_to_span" ELSE "span_to_op")]]

EmptyGraph == [Nodes |-> << >>, Edges |-> << >>]

GraphInputs ==
    {<< >>, <<EmptyGraph>>, <<PlainGraph>>, <<CyclicGraph>>, <<MissingNodesGraph>>,
     <<LayeredGraph(MaxWidth)>>, <<PathGraph(MaxPathNodes)>>}

MaxDepthInputs == {-1, 0, 1, 2, 3, 51, maxAnalysisOperations + 1}
MaxChainsInputs == {-1, 0, 1, 5, maxCausalityChains + 50}

BuildCausalityChainsInputs ==
    {[fn |-> "BuildCausalityChains", graph |-> g, maxDepth |-> d, maxChains |-> c] :
        g \in GraphInputs, d \in MaxDepthInputs, c \in MaxChainsInputs}

InitChains == InitAnalysis(BuildCausalityChainsInputs)

NextChains ==
    \/ BuildCausalityChainsCall
    \/ generateChainsRoot
    \/ generateChainsWalk
    \/ BuildCausalityChainsReturn

SpecChains == InitChains /\ [][NextChains]_vars

\* BuildCausalityChains has returned chains
ChainsReturned == aOut.called /\ aIn.fn = "BuildCausalityChains" /\ ~aOut.res.isNil

\* C15: BuildCausalityChains returns at most max_chains chains, each of
\* length at most max_depth, where a non-positive max_chains stands for 10
\* and max_chains is capped at 100, and a non-positive max_depth stands for
\* 6 and max_depth is capped at 50.
C15_ChainLimits ==
    ChainsReturned =>
        LET chains == aOut.res.chains
            max_chains == Min(IF aIn.maxChains <= 0 THEN 10 ELSE aIn.maxChains, 100)
            max_depth == Min(IF aIn.maxDepth <= 0 THEN 6 ELSE aIn.maxDepth, 50)
        IN  /\ Len(chains) <= max_chains
            /\ \A i \in 1..Len(chains) : chains[i].Length <= max_depth

\* C23: in every chain BuildCausalityChains returns, of a graph with cycles
\* or without, the node ids are pairwise distinct and each node but the last
\* has an edge of the graph to the node after it.
C23_ChainsAreSimplePaths ==
    ChainsReturned =>
        \A c \in 1..Len(aOut.res.chains) :
            LET ids == aOut.res.chains[c].NodeIDs
                edges == aIn.graph[1].Edges
            IN  /\ \A i, j \in 1..Len(ids) : i # j => ids[i] # ids[j]
                /\ \A i \in 1..(Len(ids) - 1) :
                      \E e \in 1..Len(edges) :
                          edges[e].From = ids[i] /\ edges[e].To = ids[i + 1]

\* C23's case: a chain of three nodes is returned whose last node has an
\* edge back to a node of the chain
C23_Witness ==
    /\ ChainsReturned
    /\ \E c \in 1..Len(aOut.res.chains) :
          LET ids == aOut.res.chains[c].NodeIDs
              edges == aIn.graph[1].Edges
          IN  /\ Len(ids) >= 3
              /\ \E e \in 1..Len(edges), i \in 1..Len(ids) :
                    edges[e].From = ids[Len(ids)] /\ edges[e].To = ids[i]

\* the operation nodes of the graph with an op_to_span edge going out
RootsOf(graph) ==
    {graph.Nodes[n].ID : n \in {n \in 1..Len(graph.Nodes) :
        /\ graph.Nodes[n].Type = "op"
        /\ \E e \in 1..Len(graph.Edges) :
              /\ graph.Edges[e].From = graph.Nodes[n].ID
              /\ graph.Edges[e].Type = "op_to_span"}}

\* C35: a turn of the loop over the stack that takes a path off it adds a
\* chain or pushes at least one path; and every operation node with an
\* op_to_span edge going out is the first node of a chain returned, unless
\* max_chains chains are returned.
C35_EveryRootHasAChain ==
    /\ [][(/\ enum.pc = "walk"
           /\ Len(enum.stack) > 0
           /\ Len(enum.chains) < ChainLimits[2])
          => \/ Len(enum'.chains) = Len(enum.chains) + 1
             \/ Len(enum'.stack) >= Len(enum.stack)]_vars
    /\ [](ChainsReturned =>
            \/ Len(aOut.res.chains) = ChainLimits[2]
            \/ \A root \in RootsOf(aIn.graph[1]) :
                  \E c \in 1..Len(aOut.res.chains) :
                      aOut.res.chains[c].NodeIDs[1] = root)

\* generateChains runs on one goroutine and nothing in it waits: once
\* BuildCausalityChains has called it, the next turn of its loops is taken,
\* and after the loops the chains are sorted and returned
SpecChainsFair ==
    SpecChains /\ WF_vars(generateChainsRoot \/ generateChainsWalk
                            \/ BuildCausalityChainsReturn)

\* generateChains is in its loops
Enumerating == enum.pc \in {"roots", "walk"}

\* C37: on every graph, with cycles or with edges to missing nodes, the
\* loops of generateChains come to an end and BuildCausalityChains
\* returns; a turn of the loop over the stack leaves the
\* paths below the top as they are and puts in the place of the top only
\* paths that are the top path with one more node and have at most
\* max_depth nodes; and from the moment max_chains chains are collected,
\* no chain is added and no path is pushed.
C37_EnumerationTerminates ==
    /\ Enumerating ~> (aOut.called /\ enum.pc = "done")
    /\ [][(enum.pc = "walk" /\ enum'.pc = "walk")
          => LET path == enum.stack[Len(enum.stack)]
             IN  /\ \A k \in 1..(Len(enum.stack) - 1) : enum'.stack[k] = enum.stack[k]
                 /\ \A k \in Len(enum.stack)..Len(enum'.stack) :
                       /\ Len(enum'.stack[k]) = Len(path) + 1
                       /\ SubSeq(enum'.stack[k], 1, Len(path)) = path
                       /\ Len(enum'.stack[k]) <= ChainLimits[1]]_vars
    /\ [][(Enumerating /\ Len(enum.chains) >= ChainLimits[2])
          => /\ Len(enum.chains) = ChainLimits[2]
             /\ enum'.chains = enum.chains
             /\ enum'.stack = enum.stack
             /\ enum'.pc \in {"roots", "sort"}]_vars

\* C37's case: BuildCausalityChains has returned chains of a graph in which
\* an edge leads back to the first node of a chain
C37_Witness ==
    /\ ChainsReturned
    /\ enum.pc = "done"
    /\ \E c \in 1..Len(aOut.res.chains), e \in 1..Len(aIn.graph[1].Edges) :
          /\ aIn.graph[1].Edges[e].To = aOut.res.chains[c].NodeIDs[1]
          /\ \E i \in 1..Len(aOut.res.chains[c].NodeIDs) :
                aOut.res.chains[c].NodeIDs[i] = aIn.graph[1].Edges[e].From

(***************************************************************************)
(* storage: verifyOperationsData, the checks VerifySQLite makes on the rows *)
(* of table operations.  An SQL query without ORDER BY returns its rows in  *)
(* an order SQL does not fix, so LIMIT 1 is a choice among the rows.        *)
(***************************************************************************)
\* the sessions of the table
TableSessions(table) == {table[i].session_id : i \in 1..Len(table)}

\* GROUP BY session_id, sequence_number HAVING COUNT(*) > 2
DuplicateGroupsOverTwo(table) ==
    {g \in {<<table[i].session_id, table[i].sequence_number>> : i \in 1..Len(table)} :
        Cardinality({i \in 1..Len(table) :
            table[i].session_id = g[1] /\ table[i].sequence_number = g[2]}) > 2}

\* GROUP BY session_id, sequence_number HAVING COUNT(*) > 1
DuplicateGroups(table) ==
    {g \in {<<table[i].session_id, table[i].sequence_number>> : i \in 1..Len(table)} :
        Cardinality({i \in 1..Len(table) :
            table[i].session_id = g[1] /\ table[i].sequence_number = g[2]}) > 1}

DuplicateError(table, g) ==
    [msg |-> "duplicate sequence", session |-> g[1], seq |-> g[2],
     count |-> Cardinality({i \in 1..Len(table) :
                  table[i].session_id = g[1] /\ table[i].sequence_number = g[2]})]

\* SELECT COUNT(*) FROM operations WHERE duration_ms < 0
NegativeDurationCount(table) ==
    Cardinality({i \in 1..Len(table) : table[i].duration_ms < 0})

NegativeDurationError == [msg |-> "operations with negative duration_ms"]

\* SELECT session_id, MIN(sequence_number), MAX(sequence_number), COUNT(*)
\* ... GROUP BY session_id, and the rows with expected != count
SequenceStats(table, sid) ==
    LET rows == {i \in 1..Len(table) : table[i].session_id = sid}
        seqs == {table[i].sequence_number : i \in rows}
        minSeq == CHOOSE q \in seqs : \A x \in seqs : q <= x
        maxSeq == CHOOSE q \in seqs : \A x \in seqs : x <= q
    IN  [expected |-> maxSeq - minSeq + 1, count |-> Cardinality(rows)]

GapSessions(table) ==
    {sid \in TableSessions(table) :
        SequenceStats(table, sid).expected # SequenceStats(table, sid).count}

GapWarning(table, sid) ==
    [msg |-> "sequence gaps", session |-> sid,
     expected |-> SequenceStats(table, sid).expected,
     actual |-> SequenceStats(table, sid).count]

\* the orders in which the rows of a GROUP BY can come
Orderings(S) ==
    {f \in [1..Cardinality(S) -> S] : \A i, j \in 1..Cardinality(S) : f[i] = f[j] => i = j}

\* SELECT o1.session_id FROM operations o1 JOIN operations o2 ON
\* o1.session_id = o2.session_id AND o1.sequence_number + 1 =
\* o2.sequence_number WHERE o2.timestamp < o1.timestamp
NonMonotonicJoin(table) ==
    {table[i].session_id : i \in
        {i \in 1..Len(table) : \E j \in 1..Len(table) :
            /\ table[i].session_id = table[j].session_id
            /\ table[i].sequence_number + 1 = table[j].sequence_number
            /\ table[j].timestamp < table[i].timestamp}}

NonMonotonicWarning(sid) ==
    [msg |-> "non-monotonic timestamps detected", session |-> sid]

\* verifyOperationsData: the Errors and Warnings it can append
verifyOperationsDataResults(table) ==
    {[Errors |-> dup \o (IF NegativeDurationCount(table) > 0
                         THEN <<NegativeDurationError>> ELSE << >>),
      Warnings |-> [i \in 1..Len(gaps) |-> GapWarning(table, gaps[i])] \o ts] :
        dup \in IF DuplicateGroups(table) = {} THEN {<< >>}
                ELSE {<<DuplicateError(table, g)>> : g \in DuplicateGroups(table)},
        gaps \in Orderings(GapSessions(table)),
        ts \in IF NonMonotonicJoin(table) = {} THEN {<< >>}
               ELSE {<<NonMonotonicWarning(sid)>> : sid \in NonMonotonicJoin(table)}}

verifyOperationsData ==
    /\ \E result \in verifyOperationsDataResults(dbOperations) :
          last' = [fn |-> "verifyOperationsData", err |-> "",
                   Errors |-> result.Errors, Warnings |-> result.Warnings]
    /\ UNCHANGED <<dbOperations, dbSpans, maxOperations>>

\* Operations of two sessions with sequence numbers 1..3 and two timestamps
VerifyOps ==
    {[Op(sid, q) EXCEPT !.Timestamp = FromUnix(t)] :
        sid \in Sessions, q \in 1..3, t \in {4, 5}}

InitVerify ==
    /\ NewDatabase(defaultMaxOperations)
    /\ IdleRecorder
    /\ IdleEngine
    /\ IdleAnalysis

NextVerify ==
    \/ \E op \in VerifyOps \cup NegativeDurationOps, ok \in BOOLEAN :
          InsertOperation(op, ok) /\ UNCHANGED <<recorderVars, engineVars, analysisVars>>
    \/ verifyOperationsData /\ UNCHANGED <<recorderVars, engineVars, analysisVars>>

SpecVerify == InitVerify /\ [][NextVerify]_vars

\* session sid has operations a and b with a.sequence_number <
\* b.sequence_number and a.timestamp > b.timestamp
TimestampsDecrease(table, sid) ==
    \E i, j \in 1..Len(table) :
        /\ table[i].session_id = sid /\ table[j].session_id = sid
        /\ table[i].sequence_number < table[j].sequence_number
        /\ table[i].timestamp > table[j].timestamp

InSeq(x, xs) == \E i \in 1..Len(xs) : xs[i] = x

\* C16: whenever some session of the store has two operations a, b with
\* a.sequence_number < b.sequence_number and a.timestamp > b.timestamp, the
\* verifier reports a non-monotonic-timestamp warning for that session, and
\* the verifier's errors are only those of duplicate sequence numbers and of
\* negative durations.
C16_NonMonotonicWarned ==
    last.fn = "verifyOperationsData" =>
        /\ \A sid \in Sessions :
              TimestampsDecrease(dbOperations, sid) =>
                  InSeq(NonMonotonicWarning(sid), last.Warnings)
        /\ \A i \in 1..Len(last.Errors) :
              \/ /\ last.Errors[i].msg = "duplicate sequence"
                 /\ DuplicateGroups(dbOperations) # {}
              \/ /\ last.Errors[i] = NegativeDurationError
                 /\ NegativeDurationCount(dbOperations) > 0

\* two rows of the table with the session_id and the sequence_number given
StoredTwice(table, sid, seq) ==
    \E a, b \in 1..Len(table) :
        /\ a # b
        /\ table[a].session_id = sid /\ table[b].session_id = sid
        /\ table[a].sequence_number = seq /\ table[b].sequence_number = seq

\* C29: whenever the store holds two operations with the same session_id and
\* sequence_number, the result of the verifier has an error, and that error
\* names a session and a sequence number that are stored twice.
C29_DuplicatesReported ==
    (/\ last.fn = "verifyOperationsData"
     /\ \E sid \in Sessions, seq \in 1..3 : StoredTwice(dbOperations, sid, seq))
    => /\ last.err = ""
       /\ \E i \in 1..Len(last.Errors) :
             /\ last.Errors[i].msg = "duplicate sequence"
             /\ StoredTwice(dbOperations, last.Errors[i].session, last.Errors[i].seq)

\* C29: the verifier has run on a store that holds one operation twice and
\* another operation once
C29_Witness ==
    /\ last.fn = "verifyOperationsData"
    /\ Len(dbOperations) = 3
    /\ \E sid \in Sessions, seq \in 1..3 :
          /\ StoredTwice(dbOperations, sid, seq)
          /\ \E i \in 1..Len(dbOperations) :
                <<dbOperations[i].session_id, dbOperations[i].sequence_number>>
                    # <<sid, seq>>
          /\ \E i \in 1..Len(last.Errors) :
                /\ last.Errors[i].msg = "duplicate sequence"
                /\ last.Errors[i].session = sid /\ last.Errors[i].seq = seq
                /\ last.Errors[i].count = 2

(***************************************************************************)
(* analysis: BuildCausalityGraph.                                           *)
(***************************************************************************)
Digits == {"0", "1", "2", "3", "4", "5", "6", "7", "8", "9"}

\* the value of a string of n decimal digits
RECURSIVE DigitsValue(_, _)
DigitsValue(s, n) ==
    IF n = 0 THEN 0
    ELSE 10 * DigitsValue(s, n - 1) + (CharCode[SubSeq(s, n, n)] - CharCode["0"])

\* strconv.ParseInt(s, 10, 64): <<value>>, or << >> for a parse error (the
\* strings here are short, so the value is never out of range)
ParseInt(s) ==
    LET digits == IF Len(s) > 0 /\ SubSeq(s, 1, 1) = "-" THEN SubSeq(s, 2, Len(s)) ELSE s
    IN  IF Len(digits) = 0 \/ \E i \in 1..Len(digits) : SubSeq(digits, i, i) \notin Digits
        THEN << >>
        ELSE <<IF digits = s THEN DigitsValue(digits, Len(digits))
               ELSE 0 - DigitsValue(digits, Len(digits))>>

\* t.After(u) and t.Before(u)
After(t, u) == t > u
Before(t, u) == t < u

\* populateWriteIndexes: writeOps, the write operations with their indexes
writeOps(ops) ==
    LET n == Min(Len(ops), maxAnalysisOperations)
        entries == [i \in 1..n |-> [op |-> ops[i], index |-> i - 1]]
    IN  SelectSeq(entries, LAMBDA e : isWriteOperation(e.op.OperationType))

\* the key of exactByKey
ExactKey(uid, resourceVersion) == uid \o "|" \o resourceVersion

\* an index by actor that holds the reads as well as the writes
writesByActorWithReads(ops) ==
    LET n == Min(Len(ops), maxAnalysisOperations)
        entries == [i \in 1..n |-> [op |-> ops[i], index |-> i - 1]]
        named == SelectSeq(entries, LAMBDA e : StrLen(e.op.ActorID) > 0)
    IN  [actor \in {named[i].op.ActorID : i \in 1..Len(named)} |->
            SelectSeq(named, LAMBDA e : e.op.ActorID = actor)]

\* populateWriteIndexes: writesByActor
writesByActor(ops) ==
    LET named == SelectSeq(writeOps(ops), LAMBDA e : StrLen(e.op.ActorID) > 0)
    IN  [actor \in {named[i].op.ActorID : i \in 1..Len(named)} |->
            SelectSeq(named, LAMBDA e : e.op.ActorID = actor)]

\* the writes with a uid and a resource version
IdentifiedWrites(ops) ==
    SelectSeq(writeOps(ops),
              LAMBDA e : StrLen(e.op.UID) > 0 /\ StrLen(e.op.ResourceVersion) > 0)

\* populateWriteIndexes: exactByKey
exactByKey(ops) ==
    LET w == IdentifiedWrites(ops)
    IN  [key \in {ExactKey(w[i].op.UID, w[i].op.ResourceVersion) : i \in 1..Len(w)} |->
            SelectSeq(w, LAMBDA e : ExactKey(e.op.UID, e.op.ResourceVersion) = key)]

\* sortRVIndexes' less
rvLess(a, b) ==
    IF a.rv = b.rv THEN Before(a.op.Timestamp, b.op.Timestamp) ELSE a.rv < b.rv

RECURSIVE InsertRV(_, _)
InsertRV(x, sorted) ==
    IF sorted = << >> THEN <<x>>
    ELSE IF rvLess(x, Head(sorted)) THEN <<x>> \o sorted
    ELSE <<Head(sorted)>> \o InsertRV(x, Tail(sorted))

RECURSIVE StableSortRV(_, _)
StableSortRV(xs, n) ==
    IF n = 0 THEN << >> ELSE InsertRV(xs[n], StableSortRV(xs, n - 1))

\* populateWriteIndexes and sortRVIndexes: rvByUID.  sort.Slice is not
\* stable: entries of one resource version and one timestamp come out in
\* the order of the input (reversed = FALSE) or in its reverse
rvByUID(ops, reversed) ==
    LET w == SelectSeq(IdentifiedWrites(ops),
                       LAMBDA e : ParseInt(e.op.ResourceVersion) # << >>)
        rvOps == [i \in 1..Len(w) |->
                    [op |-> w[i].op, index |-> w[i].index,
                     rv |-> ParseInt(w[i].op.ResourceVersion)[1]]]
    IN  [uid \in {rvOps[i].op.UID : i \in 1..Len(rvOps)} |->
            LET mine == SelectSeq(rvOps, LAMBDA e : e.op.UID = uid)
            IN  StableSortRV(IF reversed THEN Reverse(mine) ELSE mine, Len(mine))]

\* findExactMatch's loop: best is << >> (nil) or <<candidate>>
RECURSIVE findExactMatchLoop(_, _, _, _)
findExactMatchLoop(candidates, span, i, best) ==
    IF i > Min(Len(candidates), maxAnalysisOperations) THEN best
    ELSE IF After(candidates[i].op.Timestamp, span.StartTime)
        THEN findExactMatchLoop(candidates, span, i + 1, best)
    ELSE IF best = << >> \/ After(candidates[i].op.Timestamp, best[1].op.Timestamp)
        THEN findExactMatchLoop(candidates, span, i + 1, <<candidates[i]>>)
    ELSE findExactMatchLoop(candidates, span, i + 1, best)

\* an exact match that takes the first write of the key, whatever its time
findExactMatchFirst(exact, span) ==
    LET key == ExactKey(span.TriggerUID, span.TriggerResourceVersion)
    IN  IF key \notin DOMAIN exact THEN << >> ELSE <<exact[key][1]>>

\* findExactMatch
findExactMatch(exact, span) ==
    LET key == ExactKey(span.TriggerUID, span.TriggerResourceVersion)
    IN  IF key \notin DOMAIN exact THEN << >>
        ELSE findExactMatchLoop(exact[key], span, 1, << >>)

\* findFallbackMatch's loop
RECURSIVE findFallbackMatchLoop(_, _, _, _, _)
findFallbackMatchLoop(candidates, span, targetRV, i, best) ==
    IF i > Min(Len(candidates), maxAnalysisOperations) THEN best
    ELSE IF candidates[i].rv > targetRV
        THEN findFallbackMatchLoop(candidates, span, targetRV, i + 1, best)
    ELSE IF After(candidates[i].op.Timestamp, span.StartTime)
        THEN findFallbackMatchLoop(candidates, span, targetRV, i + 1, best)
    ELSE IF best = << >>
        THEN findFallbackMatchLoop(candidates, span, targetRV, i + 1, <<candidates[i]>>)
    ELSE IF candidates[i].rv > best[1].rv
        THEN findFallbackMatchLoop(candidates, span, targetRV, i + 1, <<candidates[i]>>)
    ELSE IF /\ candidates[i].rv = best[1].rv
            /\ After(candidates[i].op.Timestamp, best[1].op.Timestamp)
        THEN findFallbackMatchLoop(candidates, span, targetRV, i + 1, <<candidates[i]>>)
    ELSE findFallbackMatchLoop(candidates, span, targetRV, i + 1, best)

\* findFallbackMatch
findFallbackMatch(byUID, span) ==
    LET targetRV == ParseInt(span.TriggerResourceVersion)
        best == findFallbackMatchLoop(byUID[span.TriggerUID], span, targetRV[1], 1, << >>)
    IN  IF targetRV = << >> THEN << >>
        ELSE IF span.TriggerUID \notin DOMAIN byUID THEN << >>
        ELSE IF best = << >> THEN << >>
        ELSE <<[op |-> best[1].op, index |-> best[1].index]>>


\* opNodeID
opNodeID(op, index) ==
    IF op.SequenceNumber > 0 THEN OpID(op.SequenceNumber)
    ELSE IF op.ID > 0 THEN OpID(op.ID)
    ELSE OpID(index)

\* spanNodeID (StartTime.UnixNano() is the time in milliseconds * 1000000)
spanNodeID(span) ==
    IF StrLen(span.ID) > 0 THEN "span:" \o span.ID
    ELSE SpanID(span.StartTime * 1000000)

\* newCausalityBuilder: nodes is a map from id to node, edges a slice
\* (edgeIndex holds the keys of the edges in edges)
newCausalityBuilder(opts) == [opts |-> opts, nodes |-> << >>, edges |-> << >>]

EdgeKey(e) == e.From \o "|" \o e.To \o "|" \o e.Type

\* an addEdge that does not look the edge up in edgeIndex
addEdgeAgain(b, fromID, toID, edgeType) ==
    IF Len(b.edges) >= maxCausalityEdges THEN b
    ELSE [b EXCEPT !.edges = Append(@, Edge(fromID, toID, edgeType))]

\* causalityBuilder.addEdge
addEdge(b, fromID, toID, edgeType) ==
    LET key == EdgeKey(Edge(fromID, toID, edgeType))
    IN  IF \E i \in 1..Len(b.edges) : EdgeKey(b.edges[i]) = key THEN b
        ELSE IF Len(b.edges) >= maxCausalityEdges THEN b
        ELSE [b EXCEPT !.edges = Append(@, Edge(fromID, toID, edgeType))]

\* causalityBuilder.ensureOpNode (the id it returns is opNodeID(op, index))
ensureOpNode(b, op, index) ==
    LET id == opNodeID(op, index)
    IN  IF id \in DOMAIN b.nodes THEN b
        ELSE IF Cardinality(DOMAIN b.nodes) >= maxCausalityNodes THEN b
        ELSE [b EXCEPT !.nodes =
                (id :> [ID |-> id, Type |-> "op", ActorID |-> op.ActorID,
                        Kind |-> op.ResourceKind, Namespace |-> op.Namespace,
                        Name |-> op.Name, Timestamp |-> op.Timestamp,
                        ResourceVer |-> op.ResourceVersion, UID |-> op.UID,
                        DurationMs |-> op.DurationMs, Error |-> op.Error,
                        ResourceData |-> IF b.opts.IncludePayloads
                                         THEN op.ResourceData ELSE ""]) @@ @]

\* causalityBuilder.ensureSpanNode (the id it returns is spanNodeID(span))
ensureSpanNode(b, span) ==
    LET id == spanNodeID(span)
    IN  IF id \in DOMAIN b.nodes THEN b
        ELSE IF Cardinality(DOMAIN b.nodes) >= maxCausalityNodes THEN b
        ELSE [b EXCEPT !.nodes =
                (id :> [ID |-> id, Type |-> "span", ActorID |-> span.ActorID,
                        Kind |-> span.Kind, Namespace |-> span.Namespace,
                        Name |-> span.Name, Timestamp |-> span.StartTime,
                        ResourceVer |-> span.TriggerResourceVersion,
                        UID |-> span.TriggerUID, DurationMs |-> span.DurationMs,
                        Error |-> span.Error, ResourceData |-> ""]) @@ @]

\* buildSpanEdges: the nodes of a match and of its span, and the edge
\* between them
linkOpToSpan(b, match, span) ==
    addEdge(ensureSpanNode(ensureOpNode(b, match.op, match.index), span),
            opNodeID(match.op, match.index), spanNodeID(span), "op_to_span")

\* buildSpanEdges: the op_to_span edge of a span
triggerEdge(b, span, exact, byUID) ==
    IF StrLen(span.TriggerUID) > 0 /\ StrLen(span.TriggerResourceVersion) > 0
    THEN IF findExactMatch(exact, span) # << >>
            THEN linkOpToSpan(b, findExactMatch(exact, span)[1], span)
         ELSE IF findFallbackMatch(byUID, span) # << >>
            THEN linkOpToSpan(b, findFallbackMatch(byUID, span)[1], span)
         ELSE b
    ELSE b

\* buildSpanEdges: one turn of the loop over the writes of the span's actor
actorEdge(b, span, opEntry) ==
    IF \/ Before(opEntry.op.Timestamp, span.StartTime)
       \/ After(opEntry.op.Timestamp, span.EndTime[1])
    THEN b
    ELSE addEdge(ensureSpanNode(ensureOpNode(b, opEntry.op, opEntry.index), span),
                 spanNodeID(span), opNodeID(opEntry.op, opEntry.index), "span_to_op")

\* buildSpanEdges: the loop over the writes of the span's actor
RECURSIVE actorEdges(_, _, _, _)
actorEdges(b, span, actorOps, j) ==
    IF j > Min(Len(actorOps), maxAnalysisOperations) THEN b
    ELSE actorEdges(actorEdge(b, span, actorOps[j]), span, actorOps, j + 1)

\* buildSpanEdges: the loop over the spans (EndTime << >> is the zero time)
RECURSIVE buildSpanEdges(_, _, _, _, _, _)
buildSpanEdges(b, spans, exact, byUID, byActor, i) ==
    IF i > Min(Len(spans), maxAnalysisOperations) THEN b
    ELSE LET span == spans[i]
             linked == triggerEdge(b, span, exact, byUID)
         IN  IF span.EndTime = << >> \/ Before(span.EndTime[1], span.StartTime)
             THEN buildSpanEdges(linked, spans, exact, byUID, byActor, i + 1)
             ELSE buildSpanEdges(
                     actorEdges(linked, span,
                                IF span.ActorID \in DOMAIN byActor
                                THEN byActor[span.ActorID] ELSE << >>, 1),
                     spans, exact, byUID, byActor, i + 1)

\* causalityBuilder.graph: the nodes sorted by id, and the edges.  The ids
\* are the keys of a map, so no two are equal, and the place of a node in
\* the sorted slice is the number of ids less than its id
BuilderGraph(b) ==
    LET ids == DOMAIN b.nodes
        placed == {<<Cardinality({y \in ids : StringLess(y, id)}) + 1, id>> : id \in ids}
    IN  [Nodes |-> [i \in 1..Cardinality(ids) |->
                        b.nodes[(CHOOSE p \in placed : p[1] = i)[2]]],
         Edges |-> b.edges]

\* BuildCausalityGraph and indexWarnings: the warnings
causalityWarnings(ops, spans, graph) ==
    (IF Len(spans) = 0
     THEN <<"No reconcile spans found; causality requires spans.">>
     ELSE << >>)
    \o (IF Len(writeOps(ops)) = 0
        THEN <<"No write operations found; causality links require writes.">>
        ELSE << >>)
    \o (IF DOMAIN exactByKey(ops) = {}
        THEN <<"Operations missing uid/resource_version; write-to-reconcile linking limited.">>
        ELSE << >>)
    \o (IF Len(graph.Edges) = 0
        THEN <<"No causality edges found; data may be incomplete.">>
        ELSE << >>)

\* BuildCausalityGraph: graph, warnings and error
BuildCausalityGraph(ops, spans, opts, reversed) ==
    IF ~AssertInRange(Len(ops), 0, maxAnalysisOperations)
        THEN [graph |-> << >>, warnings |-> << >>, err |-> "operation count"]
    ELSE IF ~AssertInRange(Len(spans), 0, maxAnalysisOperations)
        THEN [graph |-> << >>, warnings |-> << >>, err |-> "span count"]
    ELSE LET graph == BuilderGraph(
                        buildSpanEdges(newCausalityBuilder(opts), spans, exactByKey(ops),
                                       rvByUID(ops, reversed), writesByActor(ops), 1))
         IN  [graph |-> <<graph>>, warnings |-> causalityWarnings(ops, spans, graph),
              err |-> ""]

BuildCausalityGraphCall ==
    /\ aIn.fn = "BuildCausalityGraph"
    /\ aOut = NotCalled
    /\ \E reversed \in BOOLEAN :
          aOut' = [called |-> TRUE,
                   res |-> BuildCausalityGraph(aIn.ops, aIn.spans, aIn.opts, reversed)]
    /\ UNCHANGED <<aIn, enum, storeVars, recorderVars, engineVars>>

\* The operations and spans graphs are built from: operations of one
\* session, numbered as they come, and spans that start at 2000
MaxGraphOps == 3

Write(opType, uid, resourceVersion, t) ==
    [Op("s1", 0) EXCEPT !.OperationType = opType, !.Verb = opType, !.UID = uid,
                        !.ResourceVersion = resourceVersion, !.Timestamp = t]

WriteInputs ==
    {Write("UPDATE", "u1", "7", 1000), Write("PATCH", "u1", "7", 2000),
     Write("UPDATE", "u1", "7", 3000),
     Write("CREATE", "u1", "6", 1000), Write("UPDATE", "u1", "6", 1500),
     Write("GET", "u1", "7", 1500), Write("UPDATE", "u2", "7", 1500),
     Write("UPDATE", "u1", "abc", 1000), Write("DELETE", "", "7", 1000)}

\* the operations as QueryOperations returns them
Numbered(ws) ==
    [i \in 1..Len(ws) |->
        [ID |-> i] @@ [ws[i] EXCEPT !.SequenceNumber = i]]

GraphOpsInputs ==
    UNION {{Numbered(ws) : ws \in [1..n -> WriteInputs]} : n \in 0..MaxGraphOps}

Triggered(id, uid, resourceVersion) ==
    [Span(id, "s1", 2000) EXCEPT !.TriggerUID = uid,
                                 !.TriggerResourceVersion = resourceVersion]

GraphSpansInputs ==
    {<<Triggered("a", "u1", "7")>>,
     <<Triggered("a", "", "7")>>,
     <<Triggered("a", "u1", "")>>,
     <<Triggered("a", "u1", "abc")>>,
     <<[Triggered("a", "u1", "07") EXCEPT !.EndTime = <<2500>>],
       Triggered("b", "u1", "6")>>}

BuildCausalityGraphInputs ==
    {[fn |-> "BuildCausalityGraph", ops |-> ops, spans |-> spans,
      opts |-> [IncludePayloads |-> FALSE]] :
        ops \in GraphOpsInputs, spans \in GraphSpansInputs}

InitGraph == InitAnalysis(BuildCausalityGraphInputs)

NextGraph == BuildCausalityGraphCall

SpecGraph == InitGraph /\ [][NextGraph]_vars

\* the writes among the operations the graph was built from (by position)
GraphWrites == {w \in 1..Len(aIn.ops) : isWriteOperation(aIn.ops[w].OperationType)}

\* the writes that match a span's trigger exactly, not after its start
ExactMatches(span) ==
    {w \in GraphWrites :
        /\ aIn.ops[w].UID = span.TriggerUID
        /\ aIn.ops[w].ResourceVersion = span.TriggerResourceVersion
        /\ aIn.ops[w].Timestamp <= span.StartTime}

\* the writes of the trigger's uid with an integer resource version not
\* above the trigger's, not after the span's start
FallbackMatches(span) ==
    {w \in GraphWrites :
        /\ aIn.ops[w].UID = span.TriggerUID
        /\ ParseInt(aIn.ops[w].ResourceVersion) # << >>
        /\ ParseInt(span.TriggerResourceVersion) # << >>
        /\ ParseInt(aIn.ops[w].ResourceVersion)[1] <= ParseInt(span.TriggerResourceVersion)[1]
        /\ aIn.ops[w].Timestamp <= span.StartTime}

\* the writes the claim lets a span be linked from
TriggerWrites(span) ==
    IF span.TriggerUID = "" \/ span.TriggerResourceVersion = "" THEN {}
    ELSE IF ExactMatches(span) # {}
        THEN {w \in ExactMatches(span) :
                \A x \in ExactMatches(span) : aIn.ops[x].Timestamp <= aIn.ops[w].Timestamp}
    ELSE {w \in FallbackMatches(span) :
            \A x \in FallbackMatches(span) :
                \/ ParseInt(aIn.ops[x].ResourceVersion)[1] < ParseInt(aIn.ops[w].ResourceVersion)[1]
                \/ /\ ParseInt(aIn.ops[x].ResourceVersion)[1] = ParseInt(aIn.ops[w].ResourceVersion)[1]
                   /\ aIn.ops[x].Timestamp <= aIn.ops[w].Timestamp}

\* the op_to_span edges of the graph that end in a span
TriggerEdgesOf(span) ==
    LET edges == aOut.res.graph[1].Edges
    IN  {i \in 1..Len(edges) :
            edges[i].Type = "op_to_span" /\ edges[i].To = spanNodeID(span)}

GraphBuilt == aOut.called /\ aIn.fn = "BuildCausalityGraph" /\ aOut.res.err = ""

\* C20: a span has an op_to_span edge only if its trigger_uid and its
\* trigger_resource_version are present, and then exactly one, from a write
\* that is: an exact (uid, resource_version) match of latest timestamp not
\* after the span's start if there is one; otherwise, of the writes of the
\* trigger's uid with an integer resource_version not above the trigger's
\* and a timestamp not after the span's start, one of greatest
\* resource_version and, among these, of latest timestamp.  A span with such
\* a write has the edge.  (The operations have distinct sequence numbers and
\* the spans distinct ids, so a node id names one operation or span.)
C20_TriggerEdge ==
    GraphBuilt =>
        \A k \in 1..Len(aIn.spans) :
            LET span == aIn.spans[k]
                edges == aOut.res.graph[1].Edges
            IN  /\ TriggerEdgesOf(span) # {} =>
                      span.TriggerUID # "" /\ span.TriggerResourceVersion # ""
                /\ Cardinality(TriggerEdgesOf(span)) <= 1
                /\ \A i \in TriggerEdgesOf(span) :
                      \E w \in TriggerWrites(span) :
                          edges[i].From = opNodeID(aIn.ops[w], w - 1)
                /\ TriggerWrites(span) # {} => TriggerEdgesOf(span) # {}

\* C20's case: a span without an exact match is linked from the later of two
\* writes that have the greatest resource version not above the trigger's
C20_Witness ==
    /\ GraphBuilt
    /\ \E k \in 1..Len(aIn.spans) :
          /\ TriggerEdgesOf(aIn.spans[k]) # {}
          /\ ExactMatches(aIn.spans[k]) = {}
          /\ Cardinality(FallbackMatches(aIn.spans[k])) = 3
          /\ Cardinality(TriggerWrites(aIn.spans[k])) = 1
          /\ \E w \in TriggerWrites(aIn.spans[k]), x \in FallbackMatches(aIn.spans[k]) :
                /\ aIn.ops[x].ResourceVersion = aIn.ops[w].ResourceVersion
                /\ aIn.ops[x].Timestamp < aIn.ops[w].Timestamp

(***************************************************************************)
(* BuildCausalityGraph on writes of several actors and spans that are open, *)
(* closed, or closed before they start: SpecAttribution.  The spans are as  *)
(* the store holds them: ValidateReconcileSpan lets none with an empty      *)
(* actor_id in, while an operation may have no actor_id.                    *)
(***************************************************************************)
MaxAttributedOps == 3

Acted(opType, actorID, t) ==
    [Op("s1", 0) EXCEPT !.OperationType = opType, !.Verb = opType,
                        !.ActorID = actorID, !.Timestamp = t]

ActedInputs ==
    {Acted("UPDATE", "ctl", 2000), Acted("PATCH", "ctl", 3000),
     Acted("CREATE", "ctl", 1999), Acted("DELETE", "ctl", 3001),
     Acted("GET", "ctl", 2500), Acted("UPDATE", "other", 2500),
     Acted("UPDATE", "", 2500)}

AttributedOpsInputs ==
    UNION {{Numbered(ws) : ws \in [1..n -> ActedInputs]} : n \in 0..MaxAttributedOps}

Closed(id, actorID, start, end) ==
    [Span(id, "s1", start) EXCEPT !.ActorID = actorID, !.EndTime = <<end>>,
                                  !.DurationMs = IF end >= start THEN end - start ELSE 0]

AttributedSpansInputs ==
    {<<Closed("a", "ctl", 2000, 3000)>>,
     <<Span("a", "s1", 2000)>>,
     <<Closed("a", "ctl", 2000, 1000)>>,
     <<Closed("a", "ctl", 2500, 2500)>>,
     <<Closed("a", "other", 2000, 3000), Closed("b", "ctl", 1000, 2000)>>}

AttributionInputs ==
    {[fn |-> "BuildCausalityGraph", ops |-> ops, spans |-> spans,
      opts |-> [IncludePayloads |-> FALSE]] :
        ops \in AttributedOpsInputs, spans \in AttributedSpansInputs}

InitAttribution == InitAnalysis(AttributionInputs)

NextAttribution == BuildCausalityGraphCall

SpecAttribution == InitAttribution /\ [][NextAttribution]_vars

\* the graph has a span_to_op edge from span k to operation w (by position)
HasSpanToOpEdge(k, w) ==
    \E i \in 1..Len(aOut.res.graph[1].Edges) :
        aOut.res.graph[1].Edges[i] =
            Edge(spanNodeID(aIn.spans[k]), opNodeID(aIn.ops[w], w - 1), "span_to_op")

\* operation w is a write of span k's actor made while the span ran
WrittenDuring(k, w) ==
    LET span == aIn.spans[k]
        op == aIn.ops[w]
    IN  /\ isWriteOperation(op.OperationType)
        /\ op.ActorID = span.ActorID
        /\ span.EndTime # << >>
        /\ span.EndTime[1] >= span.StartTime
        /\ span.StartTime <= op.Timestamp
        /\ op.Timestamp <= span.EndTime[1]

\* no insertion of a node or an edge met its cap
NoCapHit ==
    /\ Len(aOut.res.graph[1].Nodes) < maxCausalityNodes
    /\ Len(aOut.res.graph[1].Edges) < maxCausalityEdges

\* C21: when no cap is hit, the graph has a span_to_op edge from span s to
\* operation op if and only if op is a write, op.actor_id = s.actor_id, s has
\* an end_ts with end_ts >= start_ts, and s.start_ts <= op.timestamp <=
\* s.end_ts; and every span_to_op edge goes from a span to an operation.
C21_SpanToOpEdge ==
    (GraphBuilt /\ NoCapHit) =>
        /\ \A k \in 1..Len(aIn.spans), w \in 1..Len(aIn.ops) :
              HasSpanToOpEdge(k, w) <=> WrittenDuring(k, w)
        /\ \A i \in 1..Len(aOut.res.graph[1].Edges) :
              aOut.res.graph[1].Edges[i].Type = "span_to_op" =>
                  \E k \in 1..Len(aIn.spans), w \in 1..Len(aIn.ops) :
                      /\ aOut.res.graph[1].Edges[i].From = spanNodeID(aIn.spans[k])
                      /\ aOut.res.graph[1].Edges[i].To = opNodeID(aIn.ops[w], w - 1)

\* C21's case: a closed span has an edge to a write made at its end, none to
\* a write of its actor made after its end, and none to a write another
\* actor made while it ran
C21_Witness ==
    /\ GraphBuilt /\ NoCapHit
    /\ \E k \in 1..Len(aIn.spans), w, x, y \in 1..Len(aIn.ops) :
          /\ HasSpanToOpEdge(k, w)
          /\ aIn.ops[w].Timestamp = aIn.spans[k].EndTime[1]
          /\ ~HasSpanToOpEdge(k, x)
          /\ aIn.ops[x].ActorID = aIn.spans[k].ActorID
          /\ isWriteOperation(aIn.ops[x].OperationType)
          /\ aIn.ops[x].Timestamp > aIn.spans[k].EndTime[1]
          /\ ~HasSpanToOpEdge(k, y)
          /\ aIn.ops[y].ActorID # aIn.spans[k].ActorID
          /\ aIn.ops[y].Timestamp > aIn.spans[k].StartTime
          /\ aIn.ops[y].Timestamp < aIn.spans[k].EndTime[1]

(***************************************************************************)
(* BuildCausalityGraph step by step, one turn of a loop of buildSpanEdges   *)
(* at a time: SpecCaps.  The model takes the builder up after the first     *)
(* aIn.done spans, which AfterSpans writes down in closed form for spans    *)
(* that are closed, have no trigger and ran while their actor made every    *)
(* operation; the spans after these are built step by step.                 *)
(***************************************************************************)
CapWrites == 100
CapSpansDone == 499
MaxCapSteps == 2

\* m writes of actor ctl at 2500, without uid
CapOps(m) ==
    Numbered([i \in 1..m |-> [Acted("UPDATE", "ctl", 2500) EXCEPT !.UID = ""]])

\* span number n: closed, of actor ctl, from 2000 to 3000, without trigger
CapSpan(n) ==
    [Closed(ToString(n), "ctl", 2000, 3000) EXCEPT !.TriggerUID = ""]

CapSpans(n) == [i \in 1..n |-> CapSpan(i)]

\* the node ensureOpNode makes of an operation, and ensureSpanNode of a span
OpNodeOf(opts, op, index) ==
    ensureOpNode(newCausalityBuilder(opts), op, index).nodes[opNodeID(op, index)]
SpanNodeOf(opts, span) ==
    ensureSpanNode(newCausalityBuilder(opts), span).nodes[spanNodeID(span)]

\* the nodes of operations lo..hi
RECURSIVE OpNodes(_, _, _, _)
OpNodes(opts, ops, lo, hi) ==
    IF lo > hi THEN << >>
    ELSE IF lo = hi THEN opNodeID(ops[lo], lo - 1) :> OpNodeOf(opts, ops[lo], lo - 1)
    ELSE OpNodes(opts, ops, lo, (lo + hi) \div 2)
            @@ OpNodes(opts, ops, ((lo + hi) \div 2) + 1, hi)

\* the nodes of spans lo..hi
RECURSIVE SpanNodes(_, _, _, _)
SpanNodes(opts, spans, lo, hi) ==
    IF lo > hi THEN << >>
    ELSE IF lo = hi THEN spanNodeID(spans[lo]) :> SpanNodeOf(opts, spans[lo])
    ELSE SpanNodes(opts, spans, lo, (lo + hi) \div 2)
            @@ SpanNodes(opts, spans, ((lo + hi) \div 2) + 1, hi)

\* the builder after buildSpanEdges' first done turns: every span has an
\* edge to every operation, in the order of the spans, up to the cap
AfterSpans(opts, ops, spans, done) ==
    LET m == Len(ops)
        opIDs == << >> \o [w \in 1..m |-> opNodeID(ops[w], w - 1)]
        spanIDs == << >> \o [k \in 1..done |-> spanNodeID(spans[k])]
    IN  [opts |-> opts,
         nodes |-> IF done = 0 \/ m = 0 THEN << >>
                   ELSE OpNodes(opts, ops, 1, m) @@ SpanNodes(opts, spans, 1, done),
         edges |-> [i \in 1..Min(done * m, maxCausalityEdges) |->
                        Edge(spanIDs[((i - 1) \div m) + 1], opIDs[((i - 1) % m) + 1],
                             "span_to_op")]]

\* The builder at a step of SpecCaps: base is what AfterSpans gives for the
\* spans done before, and enum holds the nodes and edges added since
CapBase == AfterSpans(aIn.opts, aIn.ops, aIn.spans, aIn.done)

CapBuilder(base) ==
    [opts |-> aIn.opts, nodes |-> enum.nodes @@ base.nodes,
     edges |-> base.edges \o enum.edges]

\* e with the nodes and edges of builder b that base does not have
Added(e, b, base) ==
    [e EXCEPT !.nodes = [id \in (DOMAIN b.nodes) \ (DOMAIN base.nodes) |-> b.nodes[id]],
              !.edges = SubSeq(b.edges, Len(base.edges) + 1, Len(b.edges))]

\* BuildCausalityGraph up to the call of buildSpanEdges
BuildCausalityGraphStart ==
    /\ aIn.fn = "buildSpanEdges"
    /\ aOut = NotCalled
    /\ enum = NoEnum
    /\ IF ~AssertInRange(Len(aIn.ops), 0, maxAnalysisOperations)
       THEN /\ aOut' = [called |-> TRUE,
                        res |-> [graph |-> << >>, warnings |-> << >>,
                                 err |-> "operation count"]]
            /\ enum' = enum
       ELSE IF ~AssertInRange(Len(aIn.spans), 0, maxAnalysisOperations)
       THEN /\ aOut' = [called |-> TRUE,
                        res |-> [graph |-> << >>, warnings |-> << >>,
                                 err |-> "span count"]]
            /\ enum' = enum
       ELSE /\ \E reversed \in BOOLEAN :
                  enum' = [pc |-> "span", nodes |-> << >>, edges |-> << >>,
                           i |-> aIn.done + 1, j |-> 1,
                           byUID |-> rvByUID(aIn.ops, reversed)]
            /\ aOut' = aOut
    /\ UNCHANGED <<aIn, storeVars, recorderVars, engineVars>>

\* buildSpanEdges: a turn of the loop over the spans, up to the loop over
\* the writes
buildSpanEdgesSpan ==
    /\ enum.pc = "span"
    /\ IF enum.i > Min(Len(aIn.spans), maxAnalysisOperations)
       THEN enum' = [enum EXCEPT !.pc = "graph"]
       ELSE LET span == aIn.spans[enum.i]
                base == CapBase
                linked == triggerEdge(CapBuilder(base), span, exactByKey(aIn.ops),
                                      enum.byUID)
            IN  IF span.EndTime = << >> \/ Before(span.EndTime[1], span.StartTime)
                THEN enum' = Added([enum EXCEPT !.i = @ + 1], linked, base)
                ELSE enum' = Added([enum EXCEPT !.pc = "writes", !.j = 1], linked, base)
    /\ UNCHANGED <<aIn, aOut, storeVars, recorderVars, engineVars>>

\* buildSpanEdges: a turn of the loop over the writes of the span's actor
buildSpanEdgesWrite ==
    /\ enum.pc = "writes"
    /\ LET span == aIn.spans[enum.i]
           byActor == writesByActor(aIn.ops)
           actorOps == IF span.ActorID \in DOMAIN byActor
                       THEN byActor[span.ActorID] ELSE << >>
           base == CapBase
       IN  IF enum.j > Min(Len(actorOps), maxAnalysisOperations)
           THEN enum' = [enum EXCEPT !.pc = "span", !.i = @ + 1]
           ELSE enum' = Added([enum EXCEPT !.j = @ + 1],
                              actorEdge(CapBuilder(base), span, actorOps[enum.j]), base)
    /\ UNCHANGED <<aIn, aOut, storeVars, recorderVars, engineVars>>

\* BuildCausalityGraph from builder.graph() on
BuildCausalityGraphReturn ==
    /\ enum.pc = "graph"
    /\ LET graph == BuilderGraph(CapBuilder(CapBase))
       IN  aOut' = [called |-> TRUE,
                    res |-> [graph |-> <<graph>>,
                             warnings |-> causalityWarnings(aIn.ops, aIn.spans, graph),
                             err |-> ""]]
    /\ enum' = [pc |-> "done"]
    /\ UNCHANGED <<aIn, storeVars, recorderVars, engineVars>>

\* Few operations and spans, with a span that comes twice and an open one;
\* and CapWrites operations with CapSpansDone spans done, MaxCapSteps to do
CapInputs ==
    {[fn |-> "buildSpanEdges", ops |-> CapOps(m), spans |-> spans, done |-> done,
      opts |-> [IncludePayloads |-> FALSE]] :
        m \in 0..2,
        spans \in {<<CapSpan(1), CapSpan(1)>>, <<CapSpan(1), CapSpan(2)>>,
                   <<CapSpan(1), Span("2", "s1", 2000), CapSpan(1)>>},
        done \in 0..1}
    \cup {[fn |-> "buildSpanEdges", ops |-> CapOps(CapWrites),
           spans |-> CapSpans(CapSpansDone + MaxCapSteps), done |-> CapSpansDone,
           opts |-> [IncludePayloads |-> FALSE]]}

InitCaps == InitAnalysis(CapInputs)

NextCaps ==
    \/ BuildCausalityGraphStart
    \/ buildSpanEdgesSpan
    \/ buildSpanEdgesWrite
    \/ BuildCausalityGraphReturn

SpecCaps == InitCaps /\ [][NextCaps]_vars

\* AfterSpans is the builder buildSpanEdges leaves after the first done spans
AfterSpansIsBuilt ==
    (aIn.fn = "buildSpanEdges" /\ Len(aIn.ops) <= 2) =>
        AfterSpans(aIn.opts, aIn.ops, aIn.spans, aIn.done) =
            buildSpanEdges(newCausalityBuilder(aIn.opts), SubSeq(aIn.spans, 1, aIn.done),
                           exactByKey(aIn.ops), rvByUID(aIn.ops, FALSE),
                           writesByActor(aIn.ops), 1)

\* the graph SpecCaps' BuildCausalityGraph returned
CapsGraph == aOut.res.graph[1]

CapsReturned == aIn.fn = "buildSpanEdges" /\ aOut.called

\* the edges buildSpanEdges asks addEdge for: one from each span to each
\* write made by its actor while it ran (the spans have no trigger)
AskedEdges ==
    {Edge(spanNodeID(aIn.spans[k]), opNodeID(aIn.ops[w], w - 1), "span_to_op") :
        <<k, w>> \in {p \in (1..Len(aIn.spans)) \X (1..Len(aIn.ops)) :
                        WrittenDuring(p[1], p[2])}}

\* A \subseteq B for finite sets (counting B first puts it in order, which
\* makes the search for an element in it fast)
Within(A, B) == Cardinality(B) >= 0 /\ A \subseteq B

\* no two of the edges are equal, there are at most 50 000 of them and at
\* most 20 000 nodes, every edge was asked for, and an edge that was asked
\* for is missing only if there are 50 000 edges
DedupedAndCapped(nodeCount, edges) ==
    LET edgeSet == {edges[i] : i \in 1..Len(edges)}
        asked == AskedEdges
    IN  /\ Cardinality(edgeSet) = Len(edges)
        /\ Len(edges) <= maxCausalityEdges
        /\ nodeCount <= maxCausalityNodes
        /\ Within(edgeSet, asked)
        /\ Within(asked, edgeSet) \/ Len(edges) = maxCausalityEdges

\* the builder when buildSpanEdges has returned: graph() makes the graph's
\* edge list of its edges, and one node of each of its nodes
BuiltEdges == CapBase.edges \o enum.edges
BuiltNodeCount == Cardinality(DOMAIN CapBase.nodes \cup DOMAIN enum.nodes)

Endpoints(edges) ==
    {edges[i].From : i \in 1..Len(edges)} \cup {edges[i].To : i \in 1..Len(edges)}

\* C34: in a graph BuildCausalityGraph returns, the ids of the nodes are
\* the ids that are From or To of an edge, whether a cap was hit or not.
\* The same is said of the builder that graph() makes the graph of.
C34_NodesAreEdgeEndpoints ==
    /\ (CapsReturned /\ aOut.res.err = "") =>
          {CapsGraph.Nodes[i].ID : i \in 1..Len(CapsGraph.Nodes)}
              = Endpoints(CapsGraph.Edges)
    /\ (aIn.fn = "buildSpanEdges" /\ enum.pc = "graph") =>
          (DOMAIN CapBase.nodes) \cup (DOMAIN enum.nodes) = Endpoints(BuiltEdges)

(***************************************************************************)
(* One store holding operations and reconcile spans: SpecStore.             *)
(* Every call of the store that writes (InsertOperation,                    *)
(* InsertReconcileSpan, EndReconcileSpan) and every call that reads is a    *)
(* step, on a store that holds records of both tables.                      *)
(***************************************************************************)
StoreOpInputs == {Op("s1", 1), Op("s1", 2), Op("", 1)}

StoreSpanInputs ==
    {Span("a", "s1", 2000), Span("b", "s1", 3000), Span("", "s1", 2000)}

InitStore ==
    /\ NewDatabase(defaultMaxOperations)
    /\ IdleRecorder
    /\ IdleEngine
    /\ IdleAnalysis

NextStore ==
    \/ \E op \in StoreOpInputs, ok \in BOOLEAN :
          InsertOperation(op, ok) /\ UNCHANGED <<recorderVars, engineVars, analysisVars>>
    \/ \E span \in StoreSpanInputs, ok \in BOOLEAN :
          InsertReconcileSpan(span, ok) /\ UNCHANGED <<recorderVars, engineVars, analysisVars>>
    \/ \E id \in SpanIdInputs, t \in EndTimeInputs, d \in DurationInputs,
          e \in ErrMsgInputs, ok \in BOOLEAN :
          EndReconcileSpan(id, t, d, e, ok) /\ UNCHANGED <<recorderVars, engineVars, analysisVars>>
    \/ \E sid \in Sessions \cup {""} :
          QueryOperations(sid) /\ UNCHANGED <<recorderVars, engineVars, analysisVars>>
    \/ \E sid \in Sessions \cup {""} :
          QueryReconcileSpans(sid) /\ UNCHANGED <<recorderVars, engineVars, analysisVars>>

SpecStore == InitStore /\ [][NextStore]_vars

\* The columns of reconcile_spans the UPDATE of EndReconcileSpan does not set
SpanKeptColumns ==
    {"id", "session_id", "actor_id", "start_ts", "kind", "namespace", "name",
     "trigger_uid", "trigger_resource_version", "trigger_reason"}

\* C28: no call of the store removes a stored record, no call changes a
\* stored operation, and a stored span changes only when EndReconcileSpan
\* succeeds with the id of that span, and then only in end_ts, duration_ms
\* and error.
C28_OnlyCloseSpanModifies ==
    [][/\ Len(dbOperations') >= Len(dbOperations)
       /\ \A i \in 1..Len(dbOperations) : dbOperations'[i] = dbOperations[i]
       /\ Len(dbSpans') >= Len(dbSpans)
       /\ \A i \in 1..Len(dbSpans) :
             /\ \A c \in SpanKeptColumns : dbSpans'[i][c] = dbSpans[i][c]
             /\ dbSpans'[i] # dbSpans[i]
                => /\ last'.fn = "EndReconcileSpan"
                   /\ last'.err = ""
                   /\ last'.arg[1].id = dbSpans[i].id]_vars

\* C28: EndReconcileSpan has succeeded for one of two stored spans, next to
\* stored operations: that span is closed, the other one is still open.
C28_Witness ==
    /\ last.fn = "EndReconcileSpan"
    /\ last.err = ""
    /\ Len(dbOperations) >= 1
    /\ Len(dbSpans) = 2
    /\ \E i, j \in 1..Len(dbSpans) :
          /\ dbSpans[i].id = last.arg[1].id
          /\ dbSpans[i].end_ts = <<Unix(last.arg[1].endTime)>>
          /\ dbSpans[i].duration_ms = <<last.arg[1].durationMs>>
          /\ dbSpans[j].id # last.arg[1].id
          /\ dbSpans[j].end_ts = << >>

(***************************************************************************)
(* storage: initializeSchema and applySQLiteMigrations, the schema work of  *)
(* NewDatabase and NewSQLiteStore on the file they open: SpecMigrate.       *)
(* The schema of a file is the columns of table operations in the order of  *)
(* PRAGMA table_info (<< >>: no such table), whether table reconcile_spans  *)
(* exists, and the names of the indexes.  aIn is the file as it was first   *)
(* found, enum.schema the file as it is now, aOut the last open.            *)
(***************************************************************************)
maxColumns == 200

\* the number of times a file is opened
MaxOpens == 2

\* the columns of Schema's CREATE TABLE operations that are not optional
RequiredColumns ==
    <<"id", "session_id", "sequence_number", "timestamp", "operation_type",
      "resource_kind", "namespace", "name", "resource_data", "error",
      "duration_ms">>

\* the keys of map required in ensureOperationsColumns
OptionalColumns == {"actor_id", "uid", "resource_version", "generation", "verb"}

\* the columns of Schema's CREATE TABLE operations
SchemaColumns ==
    RequiredColumns \o <<"actor_id", "uid", "resource_version", "generation", "verb">>

\* the statements of Schema, in their order
SchemaStatements ==
    <<[create |-> "table", name |-> "operations"],
      [create |-> "index", name |-> "idx_session_sequence"],
      [create |-> "index", name |-> "idx_timestamp"],
      [create |-> "index", name |-> "idx_resource"],
      [create |-> "table", name |-> "reconcile_spans"],
      [create |-> "index", name |-> "idx_reconcile_session"],
      [create |-> "index", name |-> "idx_reconcile_trigger"]>>

\* CREATE TABLE IF NOT EXISTS and CREATE INDEX IF NOT EXISTS
ExecCreate(schema, stmt) ==
    IF stmt.create = "index"
    THEN [schema EXCEPT !.indexes = @ \cup {stmt.name}]
    ELSE IF stmt.name = "operations"
    THEN IF schema.operations = << >>
         THEN [schema EXCEPT !.operations = SchemaColumns] ELSE schema
    ELSE [schema EXCEPT !.reconcile_spans = TRUE]

\* db.Exec(Schema) running the first n statements of Schema
RECURSIVE ExecSchema(_, _)
ExecSchema(schema, n) ==
    IF n = 0 THEN schema
    ELSE ExecCreate(ExecSchema(schema, n - 1), SchemaStatements[n])

\* loadSQLiteColumns(db, "operations"): the names of the first maxColumns rows
\* of PRAGMA table_info
loadSQLiteColumns(schema) ==
    {schema.operations[i] : i \in 1..Min(Len(schema.operations), maxColumns)}

\* ALTER TABLE operations ADD COLUMN name: refused by the backend, or because
\* the table has a column of that name
AlterFails(schema, name, refused) ==
    \/ name = refused
    \/ \E i \in 1..Len(schema.operations) : schema.operations[i] = name

\* the loop of ensureOperationsColumns from keys[i] on, going on after an
\* ALTER TABLE that failed
RECURSIVE addColumnsIgnoringErrors(_, _, _, _, _)
addColumnsIgnoringErrors(schema, columns, keys, i, refused) ==
    IF i > Len(keys) THEN [schema |-> schema, err |-> "", failed |-> ""]
    ELSE IF keys[i] \in columns
    THEN addColumnsIgnoringErrors(schema, columns, keys, i + 1, refused)
    ELSE IF AlterFails(schema, keys[i], refused)
    THEN [addColumnsIgnoringErrors(schema, columns, keys, i + 1, refused)
            EXCEPT !.failed = keys[i]]
    ELSE addColumnsIgnoringErrors([schema EXCEPT !.operations = Append(@, keys[i])],
                                  columns, keys, i + 1, refused)

\* the loop of ensureOperationsColumns from keys[i] on: the schema it leaves,
\* its error, and the column whose ALTER TABLE failed
RECURSIVE addColumns(_, _, _, _, _)
addColumns(schema, columns, keys, i, refused) ==
    IF i > Len(keys) THEN [schema |-> schema, err |-> "", failed |-> ""]
    ELSE IF keys[i] \in columns
    THEN addColumns(schema, columns, keys, i + 1, refused)
    ELSE IF AlterFails(schema, keys[i], refused)
    THEN [schema |-> schema, err |-> "failed to add column", failed |-> keys[i]]
    ELSE addColumns([schema EXCEPT !.operations = Append(@, keys[i])],
                    columns, keys, i + 1, refused)

\* ensureOperationsColumns: order is the order in which range walks the map
\* required, keys its first maxKeys names
ensureOperationsColumns(schema, order, refused) ==
    LET maxKeys == Min(Cardinality(OptionalColumns), 20)
        keys == SubSeq(order, 1, maxKeys)
    IN  addColumns(schema, loadSQLiteColumns(schema), keys, 1, refused)

\* ensureOperationsIndexes
ensureOperationsIndexes(schema, refused) ==
    IF refused = "idx_uid_rv"
    THEN [schema |-> schema, err |-> "failed to create idx_uid_rv", failed |-> ""]
    ELSE [schema |-> [schema EXCEPT !.indexes = @ \cup {"idx_uid_rv"}],
          err |-> "", failed |-> ""]

\* applySQLiteMigrations
applySQLiteMigrations(schema, order, refused) ==
    LET cols == ensureOperationsColumns(schema, order, refused)
    IN  IF cols.err # "" THEN cols
        ELSE ensureOperationsIndexes(cols.schema, refused)

\* the names of the tables and indexes Schema creates
SchemaNames == {SchemaStatements[n].name : n \in 1..Len(SchemaStatements)}

\* initializeSchema.  refused names what the backend refuses in this call:
\* "" (nothing), a table or an index of Schema (its CREATE statement), a
\* column (its ALTER TABLE) or "idx_uid_rv" (its CREATE INDEX).
initializeSchemaResult(schema, order, refused) ==
    IF refused \in SchemaNames
    THEN LET n == CHOOSE k \in 1..Len(SchemaStatements) :
                     SchemaStatements[k].name = refused
         IN  [schema |-> ExecSchema(schema, n - 1), err |-> "failed to create schema",
              failed |-> ""]
    ELSE LET res == applySQLiteMigrations(ExecSchema(schema, Len(SchemaStatements)),
                                          order, refused)
         IN  IF res.err # ""
             THEN [res EXCEPT !.err = "schema migration failed"]
             ELSE res

\* the orders in which range can walk the map required
KeyOrders ==
    {order \in [1..Cardinality(OptionalColumns) -> OptionalColumns] :
        \A i, j \in 1..Cardinality(OptionalColumns) : order[i] = order[j] => i = j}

Refusals == {""} \cup SchemaNames \cup OptionalColumns \cup {"idx_uid_rv"}

\* NewDatabase, NewSQLiteStore: the open of the file, as far as its schema goes
initializeSchema ==
    /\ aIn.fn = "initializeSchema"
    /\ enum.opens < MaxOpens
    /\ \E order \in KeyOrders, refused \in Refusals :
          LET res == initializeSchemaResult(enum.schema, order, refused)
          IN  /\ aOut' = [called |-> TRUE,
                          res |-> [err |-> res.err, failed |-> res.failed,
                                   before |-> enum.schema, after |-> res.schema]]
              /\ enum' = [pc |-> "opened", schema |-> res.schema,
                          opens |-> enum.opens + 1]
    /\ UNCHANGED <<aIn, storeVars, recorderVars, engineVars>>

\* Table operations of a version whose Schema had only the optional columns
\* have
Legacy(have) ==
    SelectSeq(SchemaColumns, LAMBDA c : c \notin OptionalColumns \/ c \in have)

\* The files opened: a new file, and files of versions whose Schema had no
\* optional column or some of them, with or without table reconcile_spans
SchemaFiles ==
    {[operations |-> << >>, reconcile_spans |-> FALSE, indexes |-> {}]}
    \cup {[operations |-> Legacy(have), reconcile_spans |-> FALSE,
           indexes |-> {"idx_session_sequence", "idx_timestamp", "idx_resource"}] :
            have \in {{}, {"uid"}}}
    \cup {[operations |-> Legacy(have), reconcile_spans |-> TRUE,
           indexes |-> {"idx_session_sequence", "idx_timestamp", "idx_resource",
                        "idx_reconcile_session", "idx_reconcile_trigger"}] :
            have \in {{"uid"}, {"actor_id", "uid", "resource_version"},
                      OptionalColumns}}

InitMigrate ==
    /\ NewDatabase(defaultMaxOperations)
    /\ IdleRecorder
    /\ IdleEngine
    /\ aIn \in {[fn |-> "initializeSchema", file |-> f] : f \in SchemaFiles}
    /\ aOut = NotCalled
    /\ enum = [pc |-> "file", schema |-> aIn.file, opens |-> 0]

NextMigrate == initializeSchema

SpecMigrate == InitMigrate /\ [][NextMigrate]_vars

ColumnSet(schema) == {schema.operations[i] : i \in 1..Len(schema.operations)}

\* every table, column and index an open makes is there
Migrated(schema) ==
    /\ ColumnSet(schema) = ColumnSet([operations |-> SchemaColumns])
    /\ schema.reconcile_spans
    /\ schema.indexes = {SchemaStatements[n].name : n \in {2, 3, 4, 6, 7}}
                            \cup {"idx_uid_rv"}

\* C30: an open that succeeds on a file whose table operations lacks optional
\* columns leaves the columns the table had where they were, adds each
\* missing optional column once and nothing else, and leaves index idx_uid_rv
\* in the file; an open of a migrated file leaves the schema as it was; and
\* an open in which an ALTER TABLE ADD COLUMN failed returns an error.
C30_MigrationAddsWhatIsMissing ==
    aOut # NotCalled =>
        LET before == aOut.res.before
            after == aOut.res.after
            missing == OptionalColumns \ ColumnSet(before)
        IN  /\ (aOut.res.err = "" /\ before.operations # << >>) =>
                  /\ SubSeq(after.operations, 1, Len(before.operations))
                        = before.operations
                  /\ Len(after.operations) = Len(before.operations) + Cardinality(missing)
                  /\ ColumnSet(after) = ColumnSet(before) \cup missing
                  /\ "idx_uid_rv" \in after.indexes
            /\ Migrated(before) => after = before
            /\ aOut.res.failed # "" => aOut.res.err # ""
            /\ enum.schema = after

\* C30: an open has succeeded on a file whose table operations had one
\* optional column and lacked the four others
C30_Witness ==
    /\ aOut # NotCalled
    /\ aOut.res.err = ""
    /\ Len(aOut.res.before.operations) = Len(RequiredColumns) + 1
    /\ "uid" \in ColumnSet(aOut.res.before)
    /\ "idx_uid_rv" \notin aOut.res.before.indexes
    /\ Migrated(aOut.res.after)

(***************************************************************************)
(* analysis: FindSlowOperations, and the range checks of DetectLoops and    *)
(* FindSlowOperations: SpecThresholds.  thresholdMs is an int64 and the     *)
(* check converts it with int(thresholdMs), which on the 64-bit build the   *)
(* repository documents (linux-amd64) keeps its value.                      *)
(***************************************************************************)
maxSlowOps == 100

\* the greatest threshold FindSlowOperations accepts
maxThresholdMs == 1000000

\* a turn of the loop of FindSlowOperations with a test that leaves out the
\* operations that take just thresholdMs
findSlowTurnAbove(ops, thresholdMs, i, slowOps) ==
    IF ~(i < Len(ops) /\ Len(slowOps) < maxSlowOps) THEN slowOps
    ELSE LET op == ops[i + 1]
         IN  IF op.DurationMs > thresholdMs
             THEN Append(slowOps, [Index |-> i, Operation |-> op,
                                   DurationMs |-> op.DurationMs])
             ELSE slowOps

\* the turn of the loop of FindSlowOperations at index i; once the condition
\* of the loop is false, slowOps stays as it is
findSlowTurn(ops, thresholdMs, i, slowOps) ==
    IF ~(i < Len(ops) /\ Len(slowOps) < maxSlowOps) THEN slowOps
    ELSE LET op == ops[i + 1]
         IN  IF op.DurationMs >= thresholdMs
             THEN Append(slowOps, [Index |-> i, Operation |-> op,
                                   DurationMs |-> op.DurationMs])
             ELSE slowOps

\* the turns at the indexes lo..hi: the first half of them is evaluated
\* before the second is entered, and the second is left out when the loop
\* has ended
RECURSIVE findSlowTurns(_, _, _, _, _)
findSlowTurns(ops, thresholdMs, lo, hi, slowOps) ==
    IF lo > hi THEN slowOps
    ELSE IF lo = hi THEN findSlowTurn(ops, thresholdMs, lo, slowOps)
    ELSE LET mid == (lo + hi) \div 2
             half == findSlowTurns(ops, thresholdMs, lo, mid, slowOps)
         IN  IF Len(half) >= maxSlowOps THEN half
             ELSE findSlowTurns(ops, thresholdMs, mid + 1, hi, half)

\* the loop of FindSlowOperations from index i on
findSlow(ops, thresholdMs, i, slowOps) ==
    findSlowTurns(ops, thresholdMs, i, Len(ops) - 1, slowOps)

\* FindSlowOperations: slowOps is nil (<< >>) when an error is returned
FindSlowOperations(ops, thresholdMs) ==
    IF ~AssertInRange(Len(ops), 0, maxAnalysisOperations)
        THEN [slowOps |-> << >>, err |-> "range error: operation count"]
    ELSE IF ~AssertInRange(thresholdMs, 1, maxThresholdMs)
        THEN [slowOps |-> << >>, err |-> "range error: threshold milliseconds"]
    ELSE [slowOps |-> findSlow(ops, thresholdMs, 0, << >>), err |-> ""]

\* a call of FindSlowOperations
FindSlowOperationsCall ==
    /\ aIn.fn = "FindSlowOperations"
    /\ aOut = NotCalled
    /\ aOut' = [called |-> TRUE, res |-> FindSlowOperations(aIn.ops, aIn.thresholdMs)]
    /\ UNCHANGED <<aIn, enum, storeVars, recorderVars, engineVars>>

\* the longest of the short inputs of FindSlowOperations
MaxSlowLen == 10

\* the length of the long inputs of FindSlowOperations
LongSlowLen == 150

\* An operation that took d milliseconds
Took(d) == [Op("s1", 1) EXCEPT !.DurationMs = d]

SlowCycles == {<<Took(100), Took(100), Took(2000)>>,
               <<Took(1000), Took(999)>>,
               <<Took(maxThresholdMs), Took(1), Took(0), Took(maxThresholdMs + 1)>>}

ThresholdInputs == {-1, 0, 1, 1000, 2000, maxThresholdMs, maxThresholdMs + 1}

FindSlowOperationsInputs ==
    {[fn |-> "FindSlowOperations", ops |-> Repeat(cycle, n), thresholdMs |-> t] :
        cycle \in SlowCycles, n \in 0..MaxSlowLen, t \in ThresholdInputs}
    \cup {[fn |-> "FindSlowOperations", ops |-> Repeat(cycle, LongSlowLen),
           thresholdMs |-> t] : cycle \in SlowCycles, t \in {0, 1, 1000}}

\* windows on both sides of the two ends of the range of DetectLoops
RangeWindowInputs ==
    {-1, 0, 1, 2, loopDetectionWindow, loopDetectionWindow + 1}

DetectLoopsRangeInputs ==
    {[fn |-> "DetectLoops", ops |-> Repeat(cycle, n), windowSize |-> w] :
        cycle \in LoopCycles, n \in {0, 4, 8}, w \in RangeWindowInputs}

InitThresholds == InitAnalysis(FindSlowOperationsInputs \cup DetectLoopsRangeInputs)

NextThresholds == FindSlowOperationsCall \/ DetectLoopsCall

SpecThresholds == InitThresholds /\ [][NextThresholds]_vars

\* the indexes of the operations of ops that took at least thresholdMs
SlowIndexes(ops, thresholdMs) ==
    {i \in 0..(Len(ops) - 1) : ops[i + 1].DurationMs >= thresholdMs}

\* C32: for a threshold in 1..1000000 (and at most maxAnalysisOperations
\* operations), FindSlowOperations returns no error and, for k = 1, 2, ...
\* up to 100, the k-th operation of the input that took at least the
\* threshold, with its index in the input and its duration.
C32_FirstHundredSlow ==
    (/\ aIn.fn = "FindSlowOperations" /\ aOut # NotCalled
     /\ aIn.thresholdMs \in 1..maxThresholdMs
     /\ Len(aIn.ops) <= maxAnalysisOperations)
    => LET slow == SlowIndexes(aIn.ops, aIn.thresholdMs)
           res == aOut.res.slowOps
       IN  /\ aOut.res.err = ""
           /\ Len(res) = Min(Cardinality(slow), 100)
           /\ \A k \in 1..Len(res) :
                 /\ res[k].Index \in slow
                 /\ Cardinality({i \in slow : i < res[k].Index}) = k - 1
                 /\ res[k].Operation = aIn.ops[res[k].Index + 1]
                 /\ res[k].DurationMs = aIn.ops[res[k].Index + 1].DurationMs

\* C32: FindSlowOperations has returned 100 operations of an input that
\* holds more slow ones, and has left out operations between them that took
\* one millisecond less than the threshold
C32_Witness ==
    /\ aIn.fn = "FindSlowOperations" /\ aOut # NotCalled
    /\ aOut.res.err = ""
    /\ Len(aOut.res.slowOps) = 100
    /\ Cardinality(SlowIndexes(aIn.ops, aIn.thresholdMs)) > 100
    /\ \E i \in 1..Len(aIn.ops) : aIn.ops[i].DurationMs = aIn.thresholdMs - 1
    /\ \E i \in 1..Len(aIn.ops) : aIn.ops[i].DurationMs = aIn.thresholdMs

\* C33: DetectLoops with a window outside 2..100 and FindSlowOperations with
\* a threshold outside 1..1000000 return an error and no result.
C33_OutOfRangeRefused ==
    /\ (/\ aIn.fn = "DetectLoops" /\ aOut # NotCalled
        /\ aIn.windowSize \notin 2..100)
       => /\ aOut.res.err # ""
          /\ aOut.res.patterns = << >>
    /\ (/\ aIn.fn = "FindSlowOperations" /\ aOut # NotCalled
        /\ aIn.thresholdMs \notin 1..1000000)
       => /\ aOut.res.err # ""
          /\ aOut.res.slowOps = << >>

\* C33: DetectLoops has been called with window 1 on operations that repeat,
\* or FindSlowOperations with threshold 0 on operations, all of which took
\* at least 0 milliseconds
C33_Witness ==
    /\ aOut # NotCalled
    /\ Len(aIn.ops) = 8
    /\ \/ aIn.fn = "DetectLoops" /\ aIn.windowSize = 1 /\ aIn.ops[1] = aIn.ops[2]
       \/ aIn.fn = "FindSlowOperations" /\ aIn.thresholdMs = 0

(***************************************************************************)
(* The replay command's automatic replay over one engine: SpecAutoReplay.   *)
(* enum holds the locals count and total of runAutomaticReplay, aOut what   *)
(* it returns.                                                              *)
(***************************************************************************)
\* runAutomaticReplay up to its loop: total is read with GetProgress
runAutomaticReplayCall ==
    /\ enum = NoEnum
    /\ aOut = NotCalled
    /\ enum' = [pc |-> "replay", count |-> 0, total |-> GetProgress[2]]
    /\ UNCHANGED <<aIn, aOut, storeVars, recorderVars, engineVars>>

\* runAutomaticReplay, one turn of its loop and what follows the loop: an
\* error of StepForward is returned as it comes, and after total steps
\* CalculateStats, which returns no error, ends the replay
runAutomaticReplayTurn ==
    /\ enum.pc = "replay"
    /\ IF enum.count < enum.total
       THEN /\ StepForward
            /\ IF elast'.err # ""
               THEN /\ aOut' = [called |-> TRUE,
                                res |-> [err |-> "step failed", count |-> enum.count]]
                    /\ enum' = [enum EXCEPT !.pc = "done"]
               ELSE /\ aOut' = aOut
                    /\ enum' = [enum EXCEPT !.count = @ + 1]
       ELSE /\ aOut' = [called |-> TRUE, res |-> [err |-> "", count |-> enum.count]]
            /\ enum' = [enum EXCEPT !.pc = "done"]
            /\ UNCHANGED engineVars
    /\ UNCHANGED <<aIn, storeVars, recorderVars>>

\* a StepForward on the engine after the replay has returned
StepForwardAfterReplay ==
    /\ enum.pc = "done"
    /\ StepForward
    /\ UNCHANGED <<storeVars, recorderVars, analysisVars>>

\* Reset after the replay has returned; the engine can be replayed again
ResetAfterReplay ==
    /\ enum.pc = "done"
    /\ Reset
    /\ aOut' = NotCalled
    /\ enum' = NoEnum
    /\ UNCHANGED <<aIn, storeVars, recorderVars>>

NextAutoReplay ==
    \/ runAutomaticReplayCall
    \/ runAutomaticReplayTurn
    \/ StepForwardAfterReplay
    \/ ResetAfterReplay

SpecAutoReplay == InitReplay /\ [][NextAutoReplay]_vars

\* C38: from a new or reset engine, each of the maxIndex StepForward calls
\* of the automatic replay returns no error and the operation at the place
\* of its turn; the replay returns no error after maxIndex steps with
\* currentIndex at maxIndex; and the StepForward after it returns an error.
C38_ReplayTakesEveryStep ==
    /\ [][(enum.pc = "replay" /\ elast'.fn = "StepForward")
          => /\ elast'.err = ""
             /\ elast'.op = <<OpsAt(operations, enum.count)>>
             /\ currentIndex' = enum.count + 1]_vars
    /\ [](aOut.called
            => /\ aOut.res.err = ""
               /\ aOut.res.count = maxIndex
               /\ currentIndex = maxIndex)
    /\ [][(/\ enum.pc = "done" /\ enum'.pc = "done"
           /\ currentIndex = maxIndex
           /\ elast'.fn = "StepForward")
          => elast'.err # ""]_vars

====
